---- MODULE Spec2Model ----
(***************************************************************************)
(* Model of PrivateDnsConfiguration (DnsResolver): the per-network tracker *)
(* of DNS-over-TLS servers, their validation state, and the validation     *)
(* threads that report into it.  Every public operation runs under         *)
(* mPrivateDnsLock, so each is one atomic action; a validation thread is   *)
(* a small process whose only shared-state step is                         *)
(* recordPrivateDnsValidation.                                             *)
(***************************************************************************)
EXTENDS Integers, Sequences, FiniteSets, Bags, TLC

VARIABLES
    mPrivateDnsModes,       \* netId -> mode, for the netIds that have an entry
    mPrivateDnsTransports,  \* netId -> tracker (identity -> DnsTlsServer)
    mPrivateDnsLog,         \* ring buffer of RecordEntry, oldest first
    mObserver,              \* the installed observer, or NoObserver
    mPrivateDnsLock,        \* the thread inside recordPrivateDnsValidation, if any
    threads,                \* bag of the validation threads that have not ended
    last,                   \* the operation just executed and what it emitted
    nOps                    \* number of API calls made so far

vars == <<mPrivateDnsModes, mPrivateDnsTransports, mPrivateDnsLog, mObserver,
          mPrivateDnsLock, threads, last, nOps>>

----------------------------------------------------------------------------
(* Bounds of the model *)

MaxOps == 3
MaxTimeouts == 1
LogCapacity == 2

(* Program constants *)

DotPort == 853

----------------------------------------------------------------------------
(* Input universes *)

NetIds == {1}
Names == {"", "dns.example"}
\* address strings; "::1" and "0::1" are two spellings of one address,
\* "dns.bad" is not a numeric host
Texts == {"9.9.9.9", "::1", "0::1", "dns.bad"}
\* the set() calls tried: <<mark, servers, name, caCert>>
SetCalls == {
    <<16, <<"9.9.9.9">>, "", "">>,
    <<16, <<"::1", "0::1">>, "", "">>,
    <<32, <<"9.9.9.9", "::1">>, "", "ca">>,
    <<16, <<"9.9.9.9">>, "dns.example", "ca">>,
    <<16, <<>>, "dns.example", "ca">>,
    <<16, <<>>, "", "">>,
    <<16, <<"9.9.9.9", "dns.bad">>, "", "">> }
\* the requestValidation() calls tried: <<address, provider, mark>>
RequestCalls == {
    <<"9.9.9.9", "", 16>>,
    <<"9.9.9.9", "", 32>> }
Observers == {"obs1"}
NoObserver == "null"
Listeners == <<"netd1", "netd2">>
UnsolListeners == <<"unsol1">>

Validation == {"unknown_server", "in_process", "success", "success_but_expired", "fail"}

----------------------------------------------------------------------------
(* parseServer and the address type *)

\* getaddrinfo(server, "853", AI_NUMERICHOST | AI_NUMERICSERV) succeeds
ParseOk(s) == s \in {"9.9.9.9", "::1", "0::1"}

\* the sockaddr parseServer stores on success
ParseServer(s) ==
    [ip |-> IF s = "0::1" THEN "::1" ELSE s, port |-> DotPort]

Addrs == {ParseServer(s) : s \in {t \in Texts : ParseOk(t)}}

ToIpString(ss) == ss.ip

\* DnsTlsServer as built in set(): not yet active, not yet validated
DnsTlsServer(ss, name, caCert, mark) ==
    [ss |-> ss, name |-> name, certificate |-> caCert, mark |-> mark,
     active |-> FALSE, state |-> "unknown_server"]

ServerIdentity(server) == [sockaddr |-> server.ss, provider |-> server.name]

Identities == {[sockaddr |-> a, provider |-> n] : a \in Addrs, n \in Names}

\* DnsTlsServer::operator== : address, provider, certificate and mark
ServerEq(x, y) ==
    /\ x.ss = y.ss
    /\ x.name = y.name
    /\ x.certificate = y.certificate
    /\ x.mark = y.mark

\* mutant: the thread does not take the server's mark with it
Snapshot_Unmarked(server) ==
    [ss |-> server.ss, name |-> server.name,
     certificate |-> server.certificate, mark |-> 0]

\* what a validation thread captures of the server it validates
Snapshot(server) ==
    [ss |-> server.ss, name |-> server.name,
     certificate |-> server.certificate, mark |-> server.mark]

\* iteration order of the tracker (std::map keyed by ServerIdentity)
AddrRank(ss) == IF ss.ip = "9.9.9.9" THEN 0 ELSE 1
NameRank(n) == IF n = "" THEN 0 ELSE 1
IdentityLess(x, y) ==
    \/ AddrRank(x.sockaddr) < AddrRank(y.sockaddr)
    \/ /\ AddrRank(x.sockaddr) = AddrRank(y.sockaddr)
       /\ NameRank(x.provider) < NameRank(y.provider)

RECURSIVE InOrder(_)
InOrder(S) ==
    IF S = {} THEN <<>>
    ELSE LET first == CHOOSE x \in S : \A y \in S \ {x} : IdentityLess(x, y)
         IN <<first>> \o InOrder(S \ {first})

----------------------------------------------------------------------------
(* Map helpers *)

Put(f, k, v) == [x \in DOMAIN f \cup {k} |-> IF x = k THEN v ELSE f[x]]
Erase(f, k) == [x \in DOMAIN f \ {k} |-> f[x]]
EmptyMap == [x \in {} |-> x]

----------------------------------------------------------------------------
(* State shared by the helpers of one operation: the maps, the log, and    *)
(* what the operation has emitted so far.                                  *)

Mgr(transports, log) ==
    [transports |-> transports, log |-> log,
     notes |-> <<>>,      \* observer calls, in order
     events |-> <<>>,     \* listener calls, in order
     spawned |-> <<>>,    \* threads started, in order
     failing |-> {}]      \* listeners whose call returns an error status

\* LockedRingBuffer::push : drop the oldest entry when full
Push(log, entry) ==
    IF Len(log) >= LogCapacity THEN Tail(log) \o <<entry>> ELSE Append(log, entry)

RecordEntry(netId, identity, state) ==
    [netId |-> netId, serverIdentity |-> identity, state |-> state]

\* mutant: the observer installed first keeps being told
NotifyValidationStateUpdate_FirstObserver(m, sockaddr, validation, netId) ==
    IF mObserver # NoObserver
    THEN [m EXCEPT !.notes = Append(@, [observer |-> "obs1",
                                        ip |-> ToIpString(sockaddr),
                                        validation |-> validation,
                                        netId |-> netId])]
    ELSE m

NotifyValidationStateUpdate(m, sockaddr, validation, netId) ==
    IF mObserver # NoObserver
    THEN [m EXCEPT !.notes = Append(@, [observer |-> mObserver,
                                        ip |-> ToIpString(sockaddr),
                                        validation |-> validation,
                                        netId |-> netId])]
    ELSE m

\* mutant: the state is stored and logged but the observer is not told
UpdateServerState_Untold(m, identity, state, netId) ==
    IF netId \notin DOMAIN m.transports
    THEN NotifyValidationStateUpdate(m, identity.sockaddr, "fail", netId)
    ELSE IF identity \notin DOMAIN m.transports[netId]
    THEN NotifyValidationStateUpdate(m, identity.sockaddr, "fail", netId)
    ELSE LET m1 == [m EXCEPT !.transports[netId][identity].state = state]
         IN [m1 EXCEPT !.log = Push(@, RecordEntry(netId, identity, state))]

\* mutant: a state for an identity the tracker does not hold is logged as fail
UpdateServerState_LogsLost(m, identity, state, netId) ==
    IF netId \notin DOMAIN m.transports
    THEN NotifyValidationStateUpdate(m, identity.sockaddr, "fail", netId)
    ELSE IF identity \notin DOMAIN m.transports[netId]
    THEN LET m1 == NotifyValidationStateUpdate(m, identity.sockaddr, "fail", netId)
         IN [m1 EXCEPT !.log = Push(@, RecordEntry(netId, identity, "fail"))]
    ELSE LET m1 == [m EXCEPT !.transports[netId][identity].state = state]
             m2 == NotifyValidationStateUpdate(m1, identity.sockaddr, state, netId)
         IN [m2 EXCEPT !.log = Push(@, RecordEntry(netId, identity, state))]

\* mutant: the state is stored in every tracker that holds the identity
UpdateServerState_EveryNetwork(m, identity, state, netId) ==
    IF netId \notin DOMAIN m.transports
    THEN NotifyValidationStateUpdate(m, identity.sockaddr, "fail", netId)
    ELSE IF identity \notin DOMAIN m.transports[netId]
    THEN NotifyValidationStateUpdate(m, identity.sockaddr, "fail", netId)
    ELSE LET all == [n \in DOMAIN m.transports |->
                        IF identity \in DOMAIN m.transports[n]
                        THEN [m.transports[n] EXCEPT ![identity].state = state]
                        ELSE m.transports[n]]
             m1 == [m EXCEPT !.transports = all]
             m2 == NotifyValidationStateUpdate(m1, identity.sockaddr, state, netId)
         IN [m2 EXCEPT !.log = Push(@, RecordEntry(netId, identity, state))]

UpdateServerState(m, identity, state, netId) ==
    IF netId \notin DOMAIN m.transports
    THEN NotifyValidationStateUpdate(m, identity.sockaddr, "fail", netId)
    ELSE IF identity \notin DOMAIN m.transports[netId]
    THEN NotifyValidationStateUpdate(m, identity.sockaddr, "fail", netId)
    ELSE LET m1 == [m EXCEPT !.transports[netId][identity].state = state]
             m2 == NotifyValidationStateUpdate(m1, identity.sockaddr, state, netId)
         IN [m2 EXCEPT !.log = Push(@, RecordEntry(netId, identity, state))]

\* mutant: a server under validation is validated again
NeedsValidation_AlsoInProcess(server) ==
    IF ~server.active THEN FALSE
    ELSE server.state \in {"unknown_server", "fail", "success_but_expired", "in_process"}

\* mutant: an expired result is not validated again
NeedsValidation_NotExpired(server) ==
    IF ~server.active THEN FALSE
    ELSE IF server.state = "unknown_server" THEN TRUE
    ELSE IF server.state = "fail" THEN TRUE
    ELSE FALSE

NeedsValidation(server) ==
    IF ~server.active THEN FALSE
    ELSE IF server.state = "unknown_server" THEN TRUE
    ELSE IF server.state = "fail" THEN TRUE
    ELSE IF server.state = "success_but_expired" THEN TRUE
    ELSE FALSE

\* mutant: every thread is started as a first validation
NewThread_NeverRevalidation(server, netId, isRevalidation) ==
    [server |-> Snapshot(server), netId |-> netId, isRevalidation |-> FALSE,
     pc |-> "validate", timeouts |-> 0,
     cleared |-> FALSE, removed |-> FALSE, netRemoved |-> FALSE]

\* a validation thread right after std::thread starts it: about to call validate()
NewThread(server, netId, isRevalidation) ==
    [server |-> Snapshot(server), netId |-> netId, isRevalidation |-> isRevalidation,
     pc |-> "validate", timeouts |-> 0,
     cleared |-> FALSE, removed |-> FALSE, netRemoved |-> FALSE]

StartValidation(m, server, netId, isRevalidation) ==
    [m EXCEPT !.spawned = Append(@, NewThread(server, netId, isRevalidation))]

\* one listener call per registered listener, netd listeners first
\* mutant: the loop ends at the first listener whose call fails
RECURSIVE Deliver_StopsAtFailure(_, _, _)
Deliver_StopsAtFailure(listeners, event, failing) ==
    IF listeners = <<>> THEN <<>>
    ELSE IF Head(listeners) \in failing
    THEN <<[event EXCEPT !.listener = Head(listeners)]>>
    ELSE <<[event EXCEPT !.listener = Head(listeners)]>>
             \o Deliver_StopsAtFailure(Tail(listeners), event, failing)

\* the status a listener call returns is discarded: the loop goes on to the
\* next listener whether or not the call failed
RECURSIVE Deliver(_, _, _)
Deliver(listeners, event, failing) ==
    IF listeners = <<>> THEN <<>>
    ELSE <<[event EXCEPT !.listener = Head(listeners)]>>
             \o Deliver(Tail(listeners), event, failing)

\* mutant: the unsolicited event listeners are left out
SendPrivateDnsValidationEvent_NetdOnly(m, server, netId, success) ==
    LET event == [listener |-> "", netId |-> netId, ipAddress |-> ToIpString(server.ss),
                  hostname |-> server.name, success |-> success]
    IN [m EXCEPT !.events = @ \o Deliver(Listeners, event, m.failing)]

SendPrivateDnsValidationEvent(m, server, netId, success) ==
    LET event == [listener |-> "", netId |-> netId, ipAddress |-> ToIpString(server.ss),
                  hostname |-> server.name, success |-> success]
    IN [m EXCEPT !.events = @ \o Deliver(Listeners, event, m.failing)
                               \o Deliver(UnsolListeners, event, m.failing)]

----------------------------------------------------------------------------
(* set *)

\* mutant: an address that does not parse is skipped
RECURSIVE ParseServers_SkipBad(_, _, _, _, _)
ParseServers_SkipBad(servers, name, caCert, mark, tmp) ==
    IF servers = <<>> THEN [ok |-> TRUE, tmp |-> tmp]
    ELSE IF ~ParseOk(Head(servers))
    THEN ParseServers_SkipBad(Tail(servers), name, caCert, mark, tmp)
    ELSE LET server == DnsTlsServer(ParseServer(Head(servers)), name, caCert, mark)
         IN ParseServers_SkipBad(Tail(servers), name, caCert, mark,
                                 Put(tmp, ServerIdentity(server), server))

\* the parse loop: stops at the first address that does not parse
RECURSIVE ParseServers(_, _, _, _, _)
ParseServers(servers, name, caCert, mark, tmp) ==
    IF servers = <<>> THEN [ok |-> TRUE, tmp |-> tmp]
    ELSE IF ~ParseOk(Head(servers)) THEN [ok |-> FALSE, tmp |-> tmp]
    ELSE LET server == DnsTlsServer(ParseServer(Head(servers)), name, caCert, mark)
         IN ParseServers(Tail(servers), name, caCert, mark,
                         Put(tmp, ServerIdentity(server), server))

\* mutant: the server list is looked at before the hostname
ModeFor_ServersFirst(name, tmp) ==
    IF tmp = EmptyMap THEN "OFF"
    ELSE IF name # "" THEN "STRICT"
    ELSE "OPPORTUNISTIC"

\* mutant: an empty configuration does not turn private DNS off
ModeFor_NeverOff(name, tmp) ==
    IF name # "" THEN "STRICT" ELSE "OPPORTUNISTIC"

ModeFor(name, tmp) ==
    IF name # "" THEN "STRICT"
    ELSE IF tmp # EmptyMap THEN "OPPORTUNISTIC"
    ELSE "OFF"

\* mutant: every server of the call replaces the tracked one
RECURSIVE AddServers_Overwrite(_, _, _)
AddServers_Overwrite(ids, tmp, tracker) ==
    IF ids = <<>> THEN tracker
    ELSE AddServers_Overwrite(Tail(ids), tmp, Put(tracker, Head(ids), tmp[Head(ids)]))

\* add the servers not contained in the tracker
RECURSIVE AddServers(_, _, _)
AddServers(ids, tmp, tracker) ==
    IF ids = <<>> THEN tracker
    ELSE LET identity == Head(ids)
         IN AddServers(Tail(ids), tmp,
                       IF identity \notin DOMAIN tracker
                       THEN Put(tracker, identity, tmp[identity])
                       ELSE tracker)

\* mutant: an inactive server keeps its validation result
ExpireInactive_Keep(m, identity, netId) == m

\* deem the validation result of an inactive server unreliable
ExpireInactive(m, identity, netId) ==
    LET server == m.transports[netId][identity]
    IN IF ~server.active /\ server.state = "success"
       THEN UpdateServerState(m, identity, "success_but_expired", netId)
       ELSE m

\* mutant: the thread is started without the record being put in in_process
ValidateIfNeeded_NoTransition(m, identity, netId) ==
    LET server == m.transports[netId][identity]
    IN IF NeedsValidation(server)
       THEN StartValidation(m, server, netId, FALSE)
       ELSE m

ValidateIfNeeded(m, identity, netId) ==
    LET server == m.transports[netId][identity]
    IN IF NeedsValidation(server)
       THEN LET m1 == UpdateServerState(m, identity, "in_process", netId)
            IN StartValidation(m1, m1.transports[netId][identity], netId, FALSE)
       ELSE m

\* mutant: a server left out of the call stays active
RECURSIVE SetLoop_NeverDeactivates(_, _, _, _)
SetLoop_NeverDeactivates(ids, tmp, netId, m) ==
    IF ids = <<>> THEN m
    ELSE LET identity == Head(ids)
             active == identity \in DOMAIN tmp \/ m.transports[netId][identity].active
             m1 == [m EXCEPT !.transports[netId][identity].active = active]
             m2 == ExpireInactive(m1, identity, netId)
             m3 == ValidateIfNeeded(m2, identity, netId)
         IN SetLoop_NeverDeactivates(Tail(ids), tmp, netId, m3)

\* the loop over the tracker
RECURSIVE SetLoop(_, _, _, _)
SetLoop(ids, tmp, netId, m) ==
    IF ids = <<>> THEN m
    ELSE LET identity == Head(ids)
             active == identity \in DOMAIN tmp
             m1 == [m EXCEPT !.transports[netId][identity].active = active]
             m2 == ExpireInactive(m1, identity, netId)
             m3 == ValidateIfNeeded(m2, identity, netId)
         IN SetLoop(Tail(ids), tmp, netId, m3)

\* mutant: the tracker is rebuilt from the servers of the call
SetTracker_Rebuilt(netId, tmp, m) ==
    LET tracker == AddServers(InOrder(DOMAIN tmp), tmp, EmptyMap)
        m1 == [m EXCEPT !.transports = Put(@, netId, tracker)]
    IN SetLoop(InOrder(DOMAIN tracker), tmp, netId, m1)

\* the part of set() under the lock, for a mode other than OFF
SetTracker(netId, tmp, m) ==
    LET old == IF netId \in DOMAIN m.transports THEN m.transports[netId] ELSE EmptyMap
        tracker == AddServers(InOrder(DOMAIN tmp), tmp, old)
        m1 == [m EXCEPT !.transports = Put(@, netId, tracker)]
    IN SetLoop(InOrder(DOMAIN tracker), tmp, netId, m1)

----------------------------------------------------------------------------
(* recordPrivateDnsValidation *)

\* mutant: every failed validation is retried
TentativeReevaluation_EveryFailure(mode, success, isRevalidation) ==
    IF success THEN FALSE ELSE TRUE

\* the verdict before the staleness checks
TentativeReevaluation(mode, success, isRevalidation) ==
    IF success THEN FALSE
    ELSE IF mode = "OFF" THEN FALSE
    ELSE IF mode = "OPPORTUNISTIC" /\ ~isRevalidation THEN FALSE
    ELSE TRUE

\* mutant: a changed record is not noticed
IsStale_IgnoreChange(tracker, server) ==
    LET identity == ServerIdentity(server)
    IN IF identity \notin DOMAIN tracker THEN TRUE
       ELSE IF ~tracker[identity].active THEN TRUE
       ELSE FALSE

\* mutant: a record taken out of the configuration is not noticed
IsStale_IgnoreActive(tracker, server) ==
    LET identity == ServerIdentity(server)
    IN IF identity \notin DOMAIN tracker THEN TRUE
       ELSE IF ~ServerEq(tracker[identity], server) THEN TRUE
       ELSE FALSE

\* the server was removed, changed, or taken out of the configuration
IsStale(tracker, server) ==
    LET identity == ServerIdentity(server)
    IN IF identity \notin DOMAIN tracker THEN TRUE
       ELSE IF ~ServerEq(tracker[identity], server) THEN TRUE
       ELSE IF ~tracker[identity].active THEN TRUE
       ELSE FALSE

\* mutant: a failed validation that is retried is recorded as fail
ResultState_FailOnRetry(success, reevaluationStatus) ==
    IF success THEN "success" ELSE "fail"

\* the state the record is given
ResultState(success, reevaluationStatus) ==
    IF success THEN "success"
    ELSE IF reevaluationStatus THEN "in_process" ELSE "fail"

\* mutant: a report for an erased network returns without a notification
RecordPrivateDnsValidation_Silent(m, modes, server, netId, success, isRevalidation) ==
    LET identity == ServerIdentity(server)
    IN IF netId \notin DOMAIN m.transports
       THEN [m |-> m, ret |-> FALSE]
       ELSE IF netId \notin DOMAIN modes
       THEN [m |-> NotifyValidationStateUpdate(m, identity.sockaddr, "fail", netId),
             ret |-> FALSE]
       ELSE LET stale == IsStale(m.transports[netId], server)
                success1 == IF stale THEN FALSE ELSE success
                reeval == IF stale THEN FALSE
                          ELSE TentativeReevaluation(modes[netId], success, isRevalidation)
                m1 == SendPrivateDnsValidationEvent(m, server, netId, success1)
                m2 == UpdateServerState(m1, identity, ResultState(success1, reeval), netId)
            IN [m |-> m2, ret |-> reeval]

\* returns the manager state and the verdict (TRUE: NEEDS_REEVALUATION)
RecordPrivateDnsValidation(m, modes, server, netId, success, isRevalidation) ==
    LET identity == ServerIdentity(server)
    IN IF netId \notin DOMAIN m.transports
       THEN [m |-> NotifyValidationStateUpdate(m, identity.sockaddr, "fail", netId),
             ret |-> FALSE]
       ELSE IF netId \notin DOMAIN modes
       THEN [m |-> NotifyValidationStateUpdate(m, identity.sockaddr, "fail", netId),
             ret |-> FALSE]
       ELSE LET stale == IsStale(m.transports[netId], server)
                success1 == IF stale THEN FALSE ELSE success
                reeval == IF stale THEN FALSE
                          ELSE TentativeReevaluation(modes[netId], success, isRevalidation)
                m1 == SendPrivateDnsValidationEvent(m, server, netId, success1)
                m2 == UpdateServerState(m1, identity, ResultState(success1, reeval), netId)
            IN [m |-> m2, ret |-> reeval]

----------------------------------------------------------------------------
(* getStatus *)

\* mutant: inactive servers are reported too
RECURSIVE ActiveServers_AllRecords(_, _, _)
ActiveServers_AllRecords(ids, tracker, map) ==
    IF ids = <<>> THEN map
    ELSE LET server == tracker[Head(ids)]
         IN ActiveServers_AllRecords(Tail(ids), tracker,
                                     IF server.ss \notin DOMAIN map
                                     THEN Put(map, server.ss, server.state)
                                     ELSE map)

\* serversMap.emplace for each active server, in tracker order
RECURSIVE ActiveServers(_, _, _)
ActiveServers(ids, tracker, map) ==
    IF ids = <<>> THEN map
    ELSE LET server == tracker[Head(ids)]
         IN ActiveServers(Tail(ids), tracker,
                          IF server.active /\ server.ss \notin DOMAIN map
                          THEN Put(map, server.ss, server.state)
                          ELSE map)

GetStatus(modes, transports, netId) ==
    IF netId \notin DOMAIN modes THEN [mode |-> "OFF", serversMap |-> EmptyMap]
    ELSE [mode |-> modes[netId],
          serversMap |-> IF netId \in DOMAIN transports
                         THEN ActiveServers(InOrder(DOMAIN transports[netId]),
                                            transports[netId], EmptyMap)
                         ELSE EmptyMap]

----------------------------------------------------------------------------
(* Validation threads *)

NoThread == [server |-> [ss |-> [ip |-> "", port |-> 0], name |-> "",
                         certificate |-> "", mark |-> 0],
             netId |-> 0, isRevalidation |-> FALSE, pc |-> "none", timeouts |-> 0,
             cleared |-> FALSE, removed |-> FALSE, netRemoved |-> FALSE]

\* mPrivateDnsLock when no thread holds it
Unlocked == [holder |-> NoThread, success |-> FALSE]

\* std::lock_guard guard(mPrivateDnsLock) of an operation that is one step:
\* the lock is taken when free and released when the operation returns
LockGuard == mPrivateDnsLock = Unlocked /\ mPrivateDnsLock' = Unlocked

\* BackoffSequence::hasNextTimeout
HasNextTimeout(t) == t.timeouts < MaxTimeouts

RECURSIVE SeqToBag(_)
SeqToBag(q) == IF q = <<>> THEN EmptyBag ELSE SetToBag({Head(q)}) (+) SeqToBag(Tail(q))

IsActiveIn(transports, t) ==
    /\ t.netId \in DOMAIN transports
    /\ ServerIdentity(t.server) \in DOMAIN transports[t.netId]
    /\ transports[t.netId][ServerIdentity(t.server)].active

\* history kept with a thread:
\*   cleared     clear() of its network ran since its last report
\*   removed     a set() call made its server inactive while it was validating
\*   netRemoved  its network's tracker was erased while it was validating
Flagged(t, netId, isClear, before, after) ==
    IF t.netId # netId THEN t
    ELSE [t EXCEPT
            !.cleared = @ \/ isClear,
            !.removed = @ \/ (/\ t.pc = "validate"
                              /\ netId \in DOMAIN after
                              /\ IsActiveIn(before, t)
                              /\ ~IsActiveIn(after, t)),
            !.netRemoved = @ \/ (/\ t.pc = "validate"
                                 /\ netId \in DOMAIN before
                                 /\ netId \notin DOMAIN after)]

RECURSIVE FlagAll(_, _, _, _, _, _)
FlagAll(S, B, netId, isClear, before, after) ==
    IF S = {} THEN EmptyBag
    ELSE LET t == CHOOSE x \in S : TRUE
             one == [x \in {Flagged(t, netId, isClear, before, after)} |-> B[t]]
         IN one (+) FlagAll(S \ {t}, B, netId, isClear, before, after)

FlagThreads(netId, isClear, before, after) ==
    FlagAll(BagToSet(threads), threads, netId, isClear, before, after)

----------------------------------------------------------------------------
(* The operation just executed *)

Last(op, netId) ==
    [op |-> op, netId |-> netId, mark |-> 0, servers |-> <<>>, name |-> "",
     caCert |-> "", ss |-> [ip |-> "", port |-> 0], observer |-> NoObserver,
     ret |-> "", status |-> [mode |-> "OFF", serversMap |-> EmptyMap],
     spawned |-> <<>>, notes |-> <<>>, events |-> <<>>,
     thread |-> NoThread,   \* the thread that took the step
     notStarted |-> NoThread,  \* the thread std::thread could not start
     success |-> FALSE,     \* what validate() returned to it
     failing |-> {},        \* the listeners whose call failed in the step
     repeat |-> FALSE]      \* a set() with the arguments of the set() just before it

Emitted(l, m) ==
    [l EXCEPT !.spawned = m.spawned, !.notes = m.notes, !.events = m.events]

Init ==
    /\ mPrivateDnsModes = EmptyMap
    /\ mPrivateDnsTransports = EmptyMap
    /\ mPrivateDnsLog = <<>>
    /\ mObserver = NoObserver
    /\ mPrivateDnsLock = Unlocked
    /\ threads = EmptyBag
    /\ last = Last("init", 0)
    /\ nOps = 0

----------------------------------------------------------------------------
(* Actions *)

Set(netId, mark, servers, name, caCert) ==
    /\ nOps < MaxOps
    /\ LockGuard
    /\ nOps' = nOps + 1
    /\ UNCHANGED mObserver
    /\ LET l0 == [Last("set", netId) EXCEPT !.mark = mark, !.servers = servers,
                                            !.name = name, !.caCert = caCert]
           l == [l0 EXCEPT !.repeat = ([last EXCEPT !.ret = "", !.spawned = <<>>,
                                                    !.notes = <<>>, !.events = <<>>,
                                                    !.repeat = FALSE] = l0)]
           parsed == ParseServers(servers, name, caCert, mark, EmptyMap)
           mode == ModeFor(name, parsed.tmp)
           m0 == Mgr(mPrivateDnsTransports, mPrivateDnsLog)
       IN IF ~parsed.ok
          THEN /\ last' = [l EXCEPT !.ret = "EINVAL"]
               /\ UNCHANGED <<mPrivateDnsModes, mPrivateDnsTransports, mPrivateDnsLog,
                              threads>>
          ELSE IF mode = "OFF"
          THEN /\ mPrivateDnsModes' = Put(mPrivateDnsModes, netId, "OFF")
               /\ mPrivateDnsTransports' = Erase(mPrivateDnsTransports, netId)
               /\ threads' = FlagThreads(netId, FALSE, mPrivateDnsTransports,
                                         mPrivateDnsTransports')
               /\ last' = [l EXCEPT !.ret = "OK"]
               /\ UNCHANGED mPrivateDnsLog
          ELSE LET m == SetTracker(netId, parsed.tmp, m0)
               IN /\ mPrivateDnsModes' = Put(mPrivateDnsModes, netId, mode)
                  /\ mPrivateDnsTransports' = m.transports
                  /\ mPrivateDnsLog' = m.log
                  /\ threads' = FlagThreads(netId, FALSE, mPrivateDnsTransports,
                                            m.transports) (+) SeqToBag(m.spawned)
                  /\ last' = Emitted([l EXCEPT !.ret = "OK"], m)

\* mutant: clear() also drops the log entries of the network
Clear_ErasesLog(netId) ==
    /\ nOps < MaxOps
    /\ LockGuard
    /\ nOps' = nOps + 1
    /\ mPrivateDnsModes' = Erase(mPrivateDnsModes, netId)
    /\ mPrivateDnsTransports' = Erase(mPrivateDnsTransports, netId)
    /\ mPrivateDnsLog' = SelectSeq(mPrivateDnsLog, LAMBDA e : e.netId # netId)
    /\ threads' = FlagThreads(netId, TRUE, mPrivateDnsTransports, mPrivateDnsTransports')
    /\ last' = Last("clear", netId)
    /\ UNCHANGED mObserver

\* mutant: clear() erases the tracker and leaves the mode entry
Clear_KeepsMode(netId) ==
    /\ nOps < MaxOps
    /\ LockGuard
    /\ nOps' = nOps + 1
    /\ mPrivateDnsTransports' = Erase(mPrivateDnsTransports, netId)
    /\ threads' = FlagThreads(netId, TRUE, mPrivateDnsTransports, mPrivateDnsTransports')
    /\ last' = Last("clear", netId)
    /\ UNCHANGED <<mPrivateDnsModes, mPrivateDnsLog, mObserver>>

Clear(netId) ==
    /\ nOps < MaxOps
    /\ LockGuard
    /\ nOps' = nOps + 1
    /\ mPrivateDnsModes' = Erase(mPrivateDnsModes, netId)
    /\ mPrivateDnsTransports' = Erase(mPrivateDnsTransports, netId)
    /\ threads' = FlagThreads(netId, TRUE, mPrivateDnsTransports, mPrivateDnsTransports')
    /\ last' = Last("clear", netId)
    /\ UNCHANGED <<mPrivateDnsLog, mObserver>>

\* mutant: the mark of the request is not compared with the stored mark
RequestValidationError_NoMarkCheck(netId, identity, mark) ==
    IF netId \notin DOMAIN mPrivateDnsModes
    THEN "NetId not found in mPrivateDnsModes"
    ELSE IF mPrivateDnsModes[netId] # "OPPORTUNISTIC"
    THEN "Private DNS setting is not opportunistic mode"
    ELSE IF netId \notin DOMAIN mPrivateDnsTransports
    THEN "NetId not found in mPrivateDnsTransports"
    ELSE IF identity \notin DOMAIN mPrivateDnsTransports[netId]
    THEN "Server was removed"
    ELSE IF ~mPrivateDnsTransports[netId][identity].active
    THEN "Server is not active"
    ELSE IF mPrivateDnsTransports[netId][identity].state # "success"
    THEN "Server validation state mismatched"
    ELSE ""

\* mutant: the validation state is checked before the active flag
RequestValidationError_StateFirst(netId, identity, mark) ==
    IF netId \notin DOMAIN mPrivateDnsModes
    THEN "NetId not found in mPrivateDnsModes"
    ELSE IF mPrivateDnsModes[netId] # "OPPORTUNISTIC"
    THEN "Private DNS setting is not opportunistic mode"
    ELSE IF netId \notin DOMAIN mPrivateDnsTransports
    THEN "NetId not found in mPrivateDnsTransports"
    ELSE IF identity \notin DOMAIN mPrivateDnsTransports[netId]
    THEN "Server was removed"
    ELSE IF mPrivateDnsTransports[netId][identity].state # "success"
    THEN "Server validation state mismatched"
    ELSE IF ~mPrivateDnsTransports[netId][identity].active
    THEN "Server is not active"
    ELSE IF mPrivateDnsTransports[netId][identity].mark # mark
    THEN "Socket mark mismatched"
    ELSE ""

\* the error, or "" when every check passes
RequestValidationError(netId, identity, mark) ==
    IF netId \notin DOMAIN mPrivateDnsModes
    THEN "NetId not found in mPrivateDnsModes"
    ELSE IF mPrivateDnsModes[netId] # "OPPORTUNISTIC"
    THEN "Private DNS setting is not opportunistic mode"
    ELSE IF netId \notin DOMAIN mPrivateDnsTransports
    THEN "NetId not found in mPrivateDnsTransports"
    ELSE IF identity \notin DOMAIN mPrivateDnsTransports[netId]
    THEN "Server was removed"
    ELSE IF ~mPrivateDnsTransports[netId][identity].active
    THEN "Server is not active"
    ELSE IF mPrivateDnsTransports[netId][identity].state # "success"
    THEN "Server validation state mismatched"
    ELSE IF mPrivateDnsTransports[netId][identity].mark # mark
    THEN "Socket mark mismatched"
    ELSE ""

RequestValidation(netId, ss, name, mark) ==
    /\ nOps < MaxOps
    /\ LockGuard
    /\ nOps' = nOps + 1
    /\ UNCHANGED <<mPrivateDnsModes, mObserver>>
    /\ LET identity == [sockaddr |-> ss, provider |-> name]
           l == [Last("requestValidation", netId) EXCEPT !.ss = ss, !.name = name,
                                                         !.mark = mark]
           error == RequestValidationError(netId, identity, mark)
           m0 == Mgr(mPrivateDnsTransports, mPrivateDnsLog)
       IN IF error # ""
          THEN /\ last' = [l EXCEPT !.ret = error]
               /\ UNCHANGED <<mPrivateDnsTransports, mPrivateDnsLog, threads>>
          ELSE LET m1 == UpdateServerState(m0, identity, "in_process", netId)
                   m == StartValidation(m1, m1.transports[netId][identity], netId, TRUE)
               IN /\ mPrivateDnsTransports' = m.transports
                  /\ mPrivateDnsLog' = m.log
                  /\ threads' = threads (+) SeqToBag(m.spawned)
                  /\ last' = Emitted([l EXCEPT !.ret = "OK"], m)

GetStatusCall(netId) ==
    /\ nOps < MaxOps
    /\ LockGuard
    /\ nOps' = nOps + 1
    /\ last' = [Last("getStatus", netId) EXCEPT
                    !.status = GetStatus(mPrivateDnsModes, mPrivateDnsTransports, netId)]
    /\ UNCHANGED <<mPrivateDnsModes, mPrivateDnsTransports, mPrivateDnsLog, mObserver,
                   threads>>

SetObserver(observer) ==
    /\ nOps < MaxOps
    /\ LockGuard
    /\ nOps' = nOps + 1
    /\ mObserver' = observer
    /\ last' = [Last("setObserver", 0) EXCEPT !.observer = observer]
    /\ UNCHANGED <<mPrivateDnsModes, mPrivateDnsTransports, mPrivateDnsLog, threads>>

\* mutant: the thread ends after its first report
AfterRecord_NoRetry(t, needsReeval) == EmptyBag

\* mutant: the next attempt is made without the sleep
AfterRecord_NoSleep(t, needsReeval) ==
    IF ~needsReeval THEN EmptyBag
    ELSE IF HasNextTimeout(t)
    THEN SetToBag({[t EXCEPT !.timeouts = @ + 1, !.cleared = FALSE]})
    ELSE EmptyBag

\* the thread after recordPrivateDnsValidation returned needs_reeval
AfterRecord(t, needsReeval) ==
    IF ~needsReeval THEN EmptyBag
    ELSE IF HasNextTimeout(t)
    THEN SetToBag({[t EXCEPT !.pc = "sleep", !.timeouts = @ + 1, !.cleared = FALSE]})
    ELSE EmptyBag

\* One pass of the thread's loop: DnsTlsTransport::validate returns `success`
\* and the thread reports it.  validate() touches no state of the manager and
\* its result is arbitrary, so the return and the report are one step: every
\* operation that runs between them could as well run before the return.
Record(t, success) ==
    /\ t \in BagToSet(threads)
    /\ t.pc = "validate"
    /\ LockGuard
    /\ LET r == RecordPrivateDnsValidation(Mgr(mPrivateDnsTransports, mPrivateDnsLog),
                                           mPrivateDnsModes, t.server, t.netId,
                                           success, t.isRevalidation)
       IN /\ mPrivateDnsTransports' = r.m.transports
          /\ mPrivateDnsLog' = r.m.log
          /\ threads' = (threads (-) SetToBag({t})) (+) AfterRecord(t, r.ret)
          /\ last' = Emitted([Last("record", t.netId) EXCEPT
                                  !.thread = t, !.success = success,
                                  !.ret = IF r.ret THEN "NEEDS_REEVALUATION"
                                          ELSE "DONT_REEVALUATE"], r.m)
    /\ UNCHANGED <<mPrivateDnsModes, mObserver, nOps>>

\* sleep_for(backoff.getNextTimeout()) returns
Wake(t) ==
    /\ t \in BagToSet(threads)
    /\ t.pc = "sleep"
    /\ threads' = (threads (-) SetToBag({t}))
                  (+) SetToBag({[t EXCEPT !.pc = "validate", !.removed = FALSE,
                                          !.netRemoved = FALSE]})
    /\ last' = [Last("wake", t.netId) EXCEPT !.thread = t]
    /\ UNCHANGED <<mPrivateDnsModes, mPrivateDnsTransports, mPrivateDnsLog, mObserver,
                   mPrivateDnsLock, nOps>>

Next ==
    \/ \E netId \in NetIds, c \in SetCalls : Set(netId, c[1], c[2], c[3], c[4])
    \/ \E netId \in NetIds : Clear(netId)
    \/ \E netId \in NetIds, c \in RequestCalls :
           RequestValidation(netId, ParseServer(c[1]), c[2], c[3])
    \/ \E observer \in Observers \cup {NoObserver} : SetObserver(observer)
    \/ \E t \in BagToSet(threads), success \in BOOLEAN : Record(t, success)
    \/ \E t \in BagToSet(threads) : Wake(t)

Spec == Init /\ [][Next]_vars

\* every validate() call returns and every sleep ends
ThreadsRun ==
    /\ WF_vars(\E t \in BagToSet(threads), success \in BOOLEAN : Record(t, success))
    /\ WF_vars(\E t \in BagToSet(threads) : Wake(t))

\* callers that configure one server, in either mode, and ask for its
\* revalidation
FairSetCalls == {c \in SetCalls : c[2] = <<"9.9.9.9">>}

NextFair ==
    \/ \E netId \in NetIds, c \in FairSetCalls : Set(netId, c[1], c[2], c[3], c[4])
    \/ \E netId \in NetIds : Clear(netId)
    \/ \E netId \in NetIds, c \in RequestCalls :
           RequestValidation(netId, ParseServer(c[1]), c[2], c[3])
    \/ \E t \in BagToSet(threads), success \in BOOLEAN : Record(t, success)
    \/ \E t \in BagToSet(threads) : Wake(t)

SpecFair == Init /\ [][NextFair]_vars /\ ThreadsRun

----------------------------------------------------------------------------
(* Thread creation that fails.  startValidation() constructs a std::thread   *)
(* and handles no failure: when the thread cannot be started the            *)
(* constructor throws std::system_error, which either leaves the operation  *)
(* by unwinding (the lock is released, what was done so far stays) or, in a *)
(* build without exceptions, ends the process.                              *)

SpawnFailures == {"system_error", "abort"}

\* the loop of set() over the tracker when the failAt-th thread of the call
\* cannot be started: the loop ends there
RECURSIVE SetLoopThrows(_, _, _, _, _)
SetLoopThrows(ids, tmp, netId, m, failAt) ==
    IF ids = <<>> THEN [m |-> m, notStarted |-> NoThread]
    ELSE LET identity == Head(ids)
             active == identity \in DOMAIN tmp
             m1 == [m EXCEPT !.transports[netId][identity].active = active]
             m2 == ExpireInactive(m1, identity, netId)
         IN IF NeedsValidation(m2.transports[netId][identity])
               /\ Len(m2.spawned) + 1 = failAt
            THEN LET m3 == UpdateServerState(m2, identity, "in_process", netId)
                 IN [m |-> m3,
                     notStarted |-> NewThread(m3.transports[netId][identity],
                                              netId, FALSE)]
            ELSE SetLoopThrows(Tail(ids), tmp, netId,
                               ValidateIfNeeded(m2, identity, netId), failAt)

\* what is left of the process after the operation: after "abort" no thread
\* and no further call
ThreadsAfter(how, bag) == IF how = "abort" THEN EmptyBag ELSE bag
OpsAfter(how) == IF how = "abort" THEN MaxOps ELSE nOps + 1

SetSpawnFails(netId, mark, servers, name, caCert, failAt, how) ==
    /\ nOps < MaxOps
    /\ LockGuard
    /\ nOps' = OpsAfter(how)
    /\ UNCHANGED mObserver
    /\ LET l == [Last("set", netId) EXCEPT !.mark = mark, !.servers = servers,
                                           !.name = name, !.caCert = caCert]
           parsed == ParseServers(servers, name, caCert, mark, EmptyMap)
           mode == ModeFor(name, parsed.tmp)
           m0 == Mgr(mPrivateDnsTransports, mPrivateDnsLog)
           old == IF netId \in DOMAIN mPrivateDnsTransports
                  THEN mPrivateDnsTransports[netId] ELSE EmptyMap
           tracker == AddServers(InOrder(DOMAIN parsed.tmp), parsed.tmp, old)
           m1 == [m0 EXCEPT !.transports = Put(@, netId, tracker)]
           r == SetLoopThrows(InOrder(DOMAIN tracker), parsed.tmp, netId, m1, failAt)
       IN /\ parsed.ok
          /\ mode # "OFF"
          /\ r.notStarted # NoThread
          /\ mPrivateDnsModes' = Put(mPrivateDnsModes, netId, mode)
          /\ mPrivateDnsTransports' = r.m.transports
          /\ mPrivateDnsLog' = r.m.log
          /\ threads' = ThreadsAfter(how, FlagThreads(netId, FALSE, mPrivateDnsTransports,
                                                      r.m.transports)
                                              (+) SeqToBag(r.m.spawned))
          /\ last' = Emitted([l EXCEPT !.ret = how, !.notStarted = r.notStarted], r.m)

RequestValidationSpawnFails(netId, ss, name, mark, how) ==
    /\ nOps < MaxOps
    /\ LockGuard
    /\ nOps' = OpsAfter(how)
    /\ UNCHANGED <<mPrivateDnsModes, mObserver>>
    /\ LET identity == [sockaddr |-> ss, provider |-> name]
           l == [Last("requestValidation", netId) EXCEPT !.ss = ss, !.name = name,
                                                         !.mark = mark]
           m0 == Mgr(mPrivateDnsTransports, mPrivateDnsLog)
           m == UpdateServerState(m0, identity, "in_process", netId)
       IN /\ RequestValidationError(netId, identity, mark) = ""
          /\ mPrivateDnsTransports' = m.transports
          /\ mPrivateDnsLog' = m.log
          /\ threads' = ThreadsAfter(how, threads)
          /\ last' = Emitted([l EXCEPT !.ret = how,
                                       !.notStarted =
                                           NewThread(m.transports[netId][identity],
                                                     netId, TRUE)], m)

NextSpawnFailure ==
    \/ Next
    \/ \E netId \in NetIds, c \in SetCalls, how \in SpawnFailures :
           \E failAt \in 1..Len(c[2]) :
               SetSpawnFails(netId, c[1], c[2], c[3], c[4], failAt, how)
    \/ \E netId \in NetIds, c \in RequestCalls, how \in SpawnFailures :
           RequestValidationSpawnFails(netId, ParseServer(c[1]), c[2], c[3], how)

SpecSpawnFailure == Init /\ [][NextSpawnFailure]_vars

----------------------------------------------------------------------------
(* The lock in the thread's loop.  validate() and sleep_for() are called by  *)
(* the thread's lambda itself; the lock is taken by the lock_guard inside   *)
(* recordPrivateDnsValidation and released when that function returns.     *)

\* mutant: the lock is taken before validate() is called
EnterRecord_LockAroundValidate(t, success) ==
    /\ t \in BagToSet(threads)
    /\ t.pc = "validate"
    /\ mPrivateDnsLock = Unlocked
    /\ mPrivateDnsLock' = [holder |-> t, success |-> success]
    /\ last' = [Last("lock", t.netId) EXCEPT !.thread = t, !.success = success]
    /\ UNCHANGED <<mPrivateDnsModes, mPrivateDnsTransports, mPrivateDnsLog, mObserver,
                   threads, nOps>>

\* validate() has returned `success`; the thread calls
\* recordPrivateDnsValidation, whose lock_guard takes the lock
EnterRecord(t, success) ==
    /\ t \in BagToSet(threads)
    /\ t.pc = "validate"
    /\ mPrivateDnsLock = Unlocked
    /\ LET t1 == [t EXCEPT !.pc = "record"]
       IN /\ threads' = (threads (-) SetToBag({t})) (+) SetToBag({t1})
          /\ mPrivateDnsLock' = [holder |-> t1, success |-> success]
    /\ last' = [Last("lock", t.netId) EXCEPT !.thread = t, !.success = success]
    /\ UNCHANGED <<mPrivateDnsModes, mPrivateDnsTransports, mPrivateDnsLog, mObserver,
                   nOps>>

\* the body of recordPrivateDnsValidation; its return releases the lock
LeaveRecord(t) ==
    /\ t \in BagToSet(threads)
    /\ mPrivateDnsLock # Unlocked
    /\ mPrivateDnsLock.holder = t
    /\ LET t0 == [t EXCEPT !.pc = "validate"]
           success == mPrivateDnsLock.success
           r == RecordPrivateDnsValidation(Mgr(mPrivateDnsTransports, mPrivateDnsLog),
                                           mPrivateDnsModes, t.server, t.netId,
                                           success, t.isRevalidation)
       IN /\ mPrivateDnsTransports' = r.m.transports
          /\ mPrivateDnsLog' = r.m.log
          /\ threads' = (threads (-) SetToBag({t})) (+) AfterRecord(t0, r.ret)
          /\ last' = Emitted([Last("record", t.netId) EXCEPT
                                  !.thread = t0, !.success = success,
                                  !.ret = IF r.ret THEN "NEEDS_REEVALUATION"
                                          ELSE "DONT_REEVALUATE"], r.m)
    /\ mPrivateDnsLock' = Unlocked
    /\ UNCHANGED <<mPrivateDnsModes, mObserver, nOps>>

NextLock ==
    \/ \E netId \in NetIds, c \in SetCalls : Set(netId, c[1], c[2], c[3], c[4])
    \/ \E netId \in NetIds : Clear(netId)
    \/ \E netId \in NetIds, c \in RequestCalls :
           RequestValidation(netId, ParseServer(c[1]), c[2], c[3])
    \/ \E netId \in NetIds : GetStatusCall(netId)
    \/ \E observer \in Observers \cup {NoObserver} : SetObserver(observer)
    \/ \E t \in BagToSet(threads), success \in BOOLEAN : EnterRecord(t, success)
    \/ \E t \in BagToSet(threads) : LeaveRecord(t)
    \/ \E t \in BagToSet(threads) : Wake(t)

SpecLock == Init /\ [][NextLock]_vars

\* the same program with callers that also read the status
NextStatus ==
    \/ Next
    \/ \E netId \in NetIds : GetStatusCall(netId)

SpecStatus == Init /\ [][NextStatus]_vars

----------------------------------------------------------------------------
(* Properties *)

Tracked(netId) ==
    IF netId \in DOMAIN mPrivateDnsTransports
    THEN DOMAIN mPrivateDnsTransports[netId] ELSE {}

\* number of threads that have not ended for one server of one network
Running(netId, identity) ==
    LET S == {t \in BagToSet(threads) :
                  t.netId = netId /\ ServerIdentity(t.server) = identity}
    IN BagCardinality([t \in S |-> threads[t]])

\* C1: for every network and server identity, at most one validation thread
\* that was started and has not ended exists at any time.
C1_AtMostOneThread ==
    \A netId \in NetIds, identity \in Identities : Running(netId, identity) <= 1

\* C2: no tracked record is both inactive and in state success.
C2_NoInactiveSuccess ==
    \A netId \in NetIds : \A identity \in Tracked(netId) :
        LET server == mPrivateDnsTransports[netId][identity]
        IN ~(~server.active /\ server.state = "success")

\* a set() call has just taken a server that had been validated out of the
\* configuration, and its record is success_but_expired
C2_Witness ==
    /\ last.op = "set"
    /\ \E identity \in Tracked(last.netId) :
           LET server == mPrivateDnsTransports[last.netId][identity]
           IN /\ ~server.active
              /\ server.state = "success_but_expired"
              /\ \E i \in 1..Len(mPrivateDnsLog) :
                     mPrivateDnsLog[i] = RecordEntry(last.netId, identity,
                                                     "success_but_expired")

\* the staleness conditions, as the claims word them
AbsentChangedOrInactive(tracker, server) ==
    LET identity == [sockaddr |-> server.ss, provider |-> server.name]
    IN \/ identity \notin DOMAIN tracker
       \/ tracker[identity].ss # server.ss
       \/ tracker[identity].name # server.name
       \/ tracker[identity].certificate # server.certificate
       \/ tracker[identity].mark # server.mark
       \/ ~tracker[identity].active

\* the record of the reporting thread's identity is in state success (primed:
\* after the report)
ReportedSuccess(transports, t) ==
    /\ t.netId \in DOMAIN transports
    /\ ServerIdentity(t.server) \in DOMAIN transports[t.netId]
    /\ transports[t.netId][ServerIdentity(t.server)].state = "success"

AllFailureEvents(events) ==
    /\ Len(events) = Len(Listeners) + Len(UnsolListeners)
    /\ \A i \in 1..Len(events) : ~events[i].success

\* the thread that took the step has ended
ThreadEnded == BagCardinality(threads') = BagCardinality(threads) - 1

\* C3: a report for a network that has a tracker, whose server is absent from
\* the tracker, differs from the stored record or is inactive, returns
\* DONT_REEVALUATE, does not set the record to success and sends every
\* listener success=false, whatever validate() returned.
C3_StaleReportDiscarded ==
    [][(/\ last'.op = "record"
        /\ last'.netId \in DOMAIN mPrivateDnsTransports
        /\ AbsentChangedOrInactive(mPrivateDnsTransports[last'.netId],
                                   last'.thread.server))
       => /\ last'.ret = "DONT_REEVALUATE"
          /\ ~ReportedSuccess(mPrivateDnsTransports', last'.thread)
          /\ AllFailureEvents(last'.events)]_vars

\* validate() returned true for a server whose stored record has another
\* mark or certificate, and the report was discarded
C3_Witness ==
    /\ last.op = "record"
    /\ last.success
    /\ last.netId \in DOMAIN mPrivateDnsTransports
    /\ LET identity == ServerIdentity(last.thread.server)
       IN /\ identity \in Tracked(last.netId)
          /\ ~ServerEq(mPrivateDnsTransports[last.netId][identity], last.thread.server)
          /\ mPrivateDnsTransports[last.netId][identity].active
          /\ mPrivateDnsTransports[last.netId][identity].state = "fail"
    /\ last.ret = "DONT_REEVALUATE"

\* C4: the first report of a thread after clear() of its network returns
\* DONT_REEVALUATE, records no success, and ends the thread, whatever ran
\* between the clear and the report.
C4_ReportAfterClearIsStale ==
    [][(last'.op = "record" /\ last'.thread.cleared)
       => /\ last'.ret = "DONT_REEVALUATE"
          /\ ~ReportedSuccess(mPrivateDnsTransports', last'.thread)
          /\ ThreadEnded]_vars

CallIdentities(servers, name) ==
    {[sockaddr |-> ParseServer(servers[i]), provider |-> name] : i \in 1..Len(servers)}

AllParse(servers) == \A i \in 1..Len(servers) : ParseOk(servers[i])

\* number of threads, among those an operation started, for one server
SpawnedFor(spawned, netId, identity, isRevalidation) ==
    Cardinality({i \in 1..Len(spawned) :
                    /\ spawned[i].netId = netId
                    /\ ServerIdentity(spawned[i].server) = identity
                    /\ spawned[i].isRevalidation = isRevalidation
                    /\ spawned[i].pc = "validate"})

\* the state of a record when set() decides whether to validate it
StateAtDecision(netId, identity) ==
    IF netId \in DOMAIN mPrivateDnsTransports
       /\ identity \in DOMAIN mPrivateDnsTransports[netId]
    THEN mPrivateDnsTransports[netId][identity].state
    ELSE "unknown_server"

\* C6: a set() call resulting in STRICT or OPPORTUNISTIC starts exactly one
\* thread (isRevalidation=false) and sets in_process for every tracked record
\* that is then active and in unknown_server, fail or success_but_expired, and
\* starts no other thread; active records in in_process or success keep their
\* state; a repeated address yields one record and one thread.
C6_SetValidatesExactlyTheNeedy ==
    [][(/\ last'.op = "set"
        /\ last'.ret = "OK"
        /\ mPrivateDnsModes'[last'.netId] \in {"STRICT", "OPPORTUNISTIC"})
       => LET netId == last'.netId
              ids == CallIdentities(last'.servers, last'.name)
              needy == {identity \in DOMAIN mPrivateDnsTransports'[netId] :
                           /\ identity \in ids
                           /\ StateAtDecision(netId, identity)
                                  \in {"unknown_server", "fail", "success_but_expired"}}
          IN /\ ids \subseteq DOMAIN mPrivateDnsTransports'[netId]
             /\ Len(last'.spawned) = Cardinality(needy)
             /\ BagCardinality(threads') = BagCardinality(threads) + Len(last'.spawned)
             /\ \A identity \in DOMAIN mPrivateDnsTransports'[netId] :
                    LET server == mPrivateDnsTransports'[netId][identity]
                    IN IF identity \in needy
                       THEN /\ server.state = "in_process"
                            /\ server.active
                            /\ SpawnedFor(last'.spawned, netId, identity, FALSE) = 1
                       ELSE /\ SpawnedFor(last'.spawned, netId, identity, FALSE) = 0
                            /\ SpawnedFor(last'.spawned, netId, identity, TRUE) = 0
                            /\ (identity \in ids
                                  => server.state = StateAtDecision(netId, identity))]_vars

\* a set() call that names one address twice made one record and started one
\* thread for it, and none for a tracked server in state fail that the call
\* left out
C6_Witness ==
    /\ last.op = "set"
    /\ last.servers = <<"::1", "0::1">>
    /\ Len(last.spawned) = 1
    /\ Cardinality(Tracked(last.netId)) = 2
    /\ \E identity \in Tracked(last.netId) :
           /\ identity.sockaddr = ParseServer("9.9.9.9")
           /\ ~mPrivateDnsTransports[last.netId][identity].active
           /\ mPrivateDnsTransports[last.netId][identity].state = "fail"
           /\ Running(last.netId, identity) = 0

\* C7: a set() call with the arguments of the set() call just before it starts
\* no thread for a record in success or in_process and leaves the mode, the
\* tracked identities, every active flag and the state of every such record
\* unchanged.
C7_RepeatedSetIdempotent ==
    [][(last'.op = "set" /\ last'.repeat)
       => LET netId == last'.netId
          IN /\ mPrivateDnsModes' = mPrivateDnsModes
             /\ DOMAIN mPrivateDnsTransports' = DOMAIN mPrivateDnsTransports
             /\ netId \in DOMAIN mPrivateDnsTransports
                  => /\ DOMAIN mPrivateDnsTransports'[netId]
                            = DOMAIN mPrivateDnsTransports[netId]
                     /\ \A identity \in DOMAIN mPrivateDnsTransports[netId] :
                            LET old == mPrivateDnsTransports[netId][identity]
                                new == mPrivateDnsTransports'[netId][identity]
                            IN /\ new.active = old.active
                               /\ old.state \in {"success", "in_process"}
                                    => /\ new.state = old.state
                                       /\ SpawnedFor(last'.spawned, netId,
                                                     identity, FALSE) = 0]_vars

\* the second of two equal set() calls, with a server under validation
C7_Witness ==
    /\ last.op = "set"
    /\ last.repeat
    /\ last.ret = "OK"
    /\ last.spawned = <<>>
    /\ \E identity \in Tracked(last.netId) :
           /\ mPrivateDnsTransports[last.netId][identity].active
           /\ mPrivateDnsTransports[last.netId][identity].state = "in_process"
           /\ Running(last.netId, identity) = 1

\* the mode the arguments of a set() call ask for
ModeAskedFor(servers, name) ==
    IF name # "" THEN "STRICT"
    ELSE IF servers # <<>> THEN "OPPORTUNISTIC"
    ELSE "OFF"

\* C8: after a set() call whose addresses all parse, getStatus reports STRICT
\* when the hostname is non-empty, OPPORTUNISTIC when it is empty and the list
\* is not, OFF when both are empty, whatever the state before the call.
C8_ModeFromArguments ==
    (last.op = "set" /\ AllParse(last.servers))
        => GetStatus(mPrivateDnsModes, mPrivateDnsTransports, last.netId).mode
               = ModeAskedFor(last.servers, last.name)

\* a set() call with a hostname and no server, on a network that was
\* OPPORTUNISTIC, gives STRICT
C8_Witness ==
    /\ last.op = "set"
    /\ last.servers = <<>>
    /\ last.name # ""
    /\ mPrivateDnsModes[last.netId] = "STRICT"
    /\ \E identity \in Tracked(last.netId) : identity.provider = ""

\* C9: set() with no server and no hostname leaves getStatus at OFF with no
\* server, leaves no tracked record, starts no thread, notifies nobody and
\* appends nothing to the log.
C9_EmptySetTurnsOff ==
    [][(last'.op = "set" /\ last'.servers = <<>> /\ last'.name = "")
       => /\ GetStatus(mPrivateDnsModes', mPrivateDnsTransports', last'.netId)
                 = [mode |-> "OFF", serversMap |-> EmptyMap]
          /\ last'.netId \notin DOMAIN mPrivateDnsTransports'
          /\ last'.ret = "OK"
          /\ last'.spawned = <<>>
          /\ BagCardinality(threads') = BagCardinality(threads)
          /\ last'.notes = <<>>
          /\ last'.events = <<>>
          /\ mPrivateDnsLog' = mPrivateDnsLog]_vars

\* such a call on a network that had a server under validation, with an
\* observer installed
C9_Witness ==
    /\ last.op = "set"
    /\ last.servers = <<>>
    /\ last.name = ""
    /\ mObserver # NoObserver
    /\ mPrivateDnsLog # <<>>
    /\ \E t \in BagToSet(threads) : t.netId = last.netId /\ t.netRemoved

\* C10: a set() call with an address that does not parse returns EINVAL and
\* changes nothing: modes, trackers, records, log and threads are as before
\* and nobody is notified, also when earlier addresses of the list parsed.
C10_ParseFailureChangesNothing ==
    [][(last'.op = "set" /\ ~AllParse(last'.servers))
       => /\ last'.ret = "EINVAL"
          /\ mPrivateDnsModes' = mPrivateDnsModes
          /\ mPrivateDnsTransports' = mPrivateDnsTransports
          /\ mPrivateDnsLog' = mPrivateDnsLog
          /\ threads' = threads
          /\ last'.spawned = <<>>
          /\ last'.notes = <<>>
          /\ last'.events = <<>>]_vars

\* a failed call whose first address parsed, on a network with a tracked
\* server under validation and an observer installed
C10_Witness ==
    /\ last.op = "set"
    /\ last.ret = "EINVAL"
    /\ Len(last.servers) = 2
    /\ ParseOk(last.servers[1])
    /\ mObserver # NoObserver
    /\ Tracked(last.netId) # {}
    /\ threads # EmptyBag

\* the checks of requestValidation(), as the claims word them
RequestRefused(netId, identity, mark) ==
    \/ netId \notin DOMAIN mPrivateDnsModes
    \/ mPrivateDnsModes[netId] # "OPPORTUNISTIC"
    \/ identity \notin Tracked(netId)
    \/ ~mPrivateDnsTransports[netId][identity].active
    \/ mPrivateDnsTransports[netId][identity].state # "success"
    \/ mPrivateDnsTransports[netId][identity].mark # mark

\* the identity a requestValidation() call names
RequestIdentity(l) == [sockaddr |-> l.ss, provider |-> l.name]

\* C11: requestValidation() returns an error, changes no mode, tracker or
\* record, appends nothing to the log, notifies nobody and starts no thread
\* when the network is unknown, its mode is not OPPORTUNISTIC, the identity is
\* not tracked, the record is inactive, its state is not success, or the mark
\* differs from the stored mark.
C11_RefusedRequestChangesNothing ==
    [][(/\ last'.op = "requestValidation"
        /\ RequestRefused(last'.netId, RequestIdentity(last'), last'.mark))
       => /\ last'.ret \notin {"", "OK"}
          /\ mPrivateDnsModes' = mPrivateDnsModes
          /\ mPrivateDnsTransports' = mPrivateDnsTransports
          /\ mPrivateDnsLog' = mPrivateDnsLog
          /\ threads' = threads
          /\ last'.spawned = <<>>
          /\ last'.notes = <<>>
          /\ last'.events = <<>>]_vars

\* a request with another mark than the stored one, for an active server in
\* state success of an OPPORTUNISTIC network, with an observer installed
C11_Witness ==
    /\ last.op = "requestValidation"
    /\ last.ret = "Socket mark mismatched"
    /\ mObserver # NoObserver
    /\ mPrivateDnsModes[last.netId] = "OPPORTUNISTIC"
    /\ LET server == mPrivateDnsTransports[last.netId][RequestIdentity(last)]
       IN /\ server.active
          /\ server.state = "success"
          /\ server.mark # last.mark

\* C12: when the network is OPPORTUNISTIC, the identity is tracked, its record
\* is active and in state success and the mark equals the stored mark,
\* requestValidation() succeeds, sets that record to in_process, starts exactly
\* one thread, with isRevalidation=true, for it, and changes no other record.
C12_AcceptedRequestRevalidates ==
    [][(/\ last'.op = "requestValidation"
        /\ ~RequestRefused(last'.netId, RequestIdentity(last'), last'.mark))
       => LET netId == last'.netId
              identity == RequestIdentity(last')
              old == mPrivateDnsTransports[netId][identity]
          IN /\ last'.ret = "OK"
             /\ mPrivateDnsModes' = mPrivateDnsModes
             /\ DOMAIN mPrivateDnsTransports' = DOMAIN mPrivateDnsTransports
             /\ DOMAIN mPrivateDnsTransports'[netId] = DOMAIN mPrivateDnsTransports[netId]
             /\ mPrivateDnsTransports'[netId][identity] = [old EXCEPT !.state = "in_process"]
             /\ \A other \in DOMAIN mPrivateDnsTransports[netId] \ {identity} :
                    mPrivateDnsTransports'[netId][other]
                        = mPrivateDnsTransports[netId][other]
             /\ Len(last'.spawned) = 1
             /\ SpawnedFor(last'.spawned, netId, identity, TRUE) = 1
             /\ last'.spawned[1].server = Snapshot(old)
             /\ BagCardinality(threads') = BagCardinality(threads) + 1]_vars

\* an accepted request on a network that tracks a second server, which kept
\* its state
C12_Witness ==
    /\ last.op = "requestValidation"
    /\ last.ret = "OK"
    /\ Cardinality(Tracked(last.netId)) = 2
    /\ mPrivateDnsTransports[last.netId][RequestIdentity(last)].state = "in_process"
    /\ \E t \in BagToSet(threads) :
           /\ t.netId = last.netId
           /\ ServerIdentity(t.server) = RequestIdentity(last)
           /\ t.isRevalidation
           /\ t.pc = "validate"

\* the report just made was not stale: its network has a tracker and a mode,
\* and the stored record equals the thread's server and is active.  The report
\* changes none of these, so they are read after it.
ReportNotStale ==
    /\ last.op = "record"
    /\ last.netId \in DOMAIN mPrivateDnsTransports
    /\ last.netId \in DOMAIN mPrivateDnsModes
    /\ ~AbsentChangedOrInactive(mPrivateDnsTransports[last.netId], last.thread.server)

\* C13: a report that is not stale returns NEEDS_REEVALUATION exactly when
\* validate() failed and the mode is STRICT, or OPPORTUNISTIC with a thread
\* started by requestValidation(); it returns DONT_REEVALUATE on success and
\* on failure of a first validation in OPPORTUNISTIC mode.
C13_ReevaluateOnlyStrictOrRevalidation ==
    ReportNotStale
        => LET mode == mPrivateDnsModes[last.netId]
               retry == /\ ~last.success
                        /\ \/ mode = "STRICT"
                           \/ mode = "OPPORTUNISTIC" /\ last.thread.isRevalidation
           IN last.ret = IF retry THEN "NEEDS_REEVALUATION" ELSE "DONT_REEVALUATE"

\* a thread started by requestValidation() reported a failure on an
\* OPPORTUNISTIC network and is to try again
C13_Witness ==
    /\ ReportNotStale
    /\ ~last.success
    /\ last.thread.isRevalidation
    /\ mPrivateDnsModes[last.netId] = "OPPORTUNISTIC"
    /\ last.ret = "NEEDS_REEVALUATION"

\* C14: after a report that finds the thread's identity in the tracker, the
\* record is in success when the outcome, corrected for staleness, is success,
\* in in_process when it is failure and the verdict is NEEDS_REEVALUATION, in
\* fail when it is failure and the verdict is DONT_REEVALUATE; getStatus
\* reports that state for the server when it is active.
C14_StateFollowsOutcome ==
    (/\ last.op = "record"
     /\ ServerIdentity(last.thread.server) \in Tracked(last.netId))
        => LET netId == last.netId
               server == mPrivateDnsTransports[netId][ServerIdentity(last.thread.server)]
               outcome == /\ last.success
                          /\ ~AbsentChangedOrInactive(mPrivateDnsTransports[netId],
                                                      last.thread.server)
               state == IF outcome THEN "success"
                        ELSE IF last.ret = "NEEDS_REEVALUATION" THEN "in_process"
                        ELSE "fail"
               status == GetStatus(mPrivateDnsModes, mPrivateDnsTransports, netId)
           IN /\ server.state = state
              /\ server.active => /\ server.ss \in DOMAIN status.serversMap
                                  /\ status.serversMap[server.ss] = state

\* a failed validation on a STRICT network left the active record in
\* in_process, and the thread asleep before its next attempt
C14_Witness ==
    /\ last.op = "record"
    /\ ~last.success
    /\ last.ret = "NEEDS_REEVALUATION"
    /\ mPrivateDnsModes[last.netId] = "STRICT"
    /\ LET server == mPrivateDnsTransports[last.netId][ServerIdentity(last.thread.server)]
       IN server.active /\ server.state = "in_process"
    /\ \E t \in BagToSet(threads) : t.pc = "sleep"

\* the observer calls that tell the installed observer, if any, of one state
ObserverTold(ss, validation, netId) ==
    IF mObserver = NoObserver THEN <<>>
    ELSE <<[observer |-> mObserver, ip |-> ToIpString(ss), validation |-> validation,
            netId |-> netId]>>

\* C15: a report, of success or failure, for a network that has no tracker
\* tells the observer state fail for the thread's address and network,
\* returns DONT_REEVALUATE, and creates or changes no mode entry, tracker or
\* record.
C15_ReportForErasedNetwork ==
    [][(last'.op = "record" /\ last'.netId \notin DOMAIN mPrivateDnsTransports)
       => /\ last'.notes = ObserverTold(last'.thread.server.ss, "fail", last'.netId)
          /\ last'.ret = "DONT_REEVALUATE"
          /\ mPrivateDnsModes' = mPrivateDnsModes
          /\ mPrivateDnsTransports' = mPrivateDnsTransports]_vars

\* validate() returned true after clear() erased the network; the observer
\* was told fail
C15_Witness ==
    /\ last.op = "record"
    /\ last.success
    /\ last.thread.cleared
    /\ last.netId \notin DOMAIN mPrivateDnsTransports
    /\ last.netId \notin DOMAIN mPrivateDnsModes
    /\ Len(last.notes) = 1
    /\ last.notes[1].validation = "fail"

\* the active records of a network's tracker
ActiveIdentities(netId) ==
    {identity \in Tracked(netId) : mPrivateDnsTransports[netId][identity].active}

\* C16: getStatus() returns OFF and an empty map when the network has no mode
\* entry; otherwise the stored mode and a map with exactly one entry, holding
\* the record's state, for each active record of the tracker and none for an
\* inactive record; it changes no mode, tracker, record or log entry and
\* notifies nobody.
C16_GetStatusReadsActiveRecords ==
    [][(last'.op = "getStatus")
       => LET netId == last'.netId
              status == last'.status
          IN /\ IF netId \notin DOMAIN mPrivateDnsModes
                THEN status = [mode |-> "OFF", serversMap |-> EmptyMap]
                ELSE /\ status.mode = mPrivateDnsModes[netId]
                     /\ DOMAIN status.serversMap
                            = {identity.sockaddr : identity \in ActiveIdentities(netId)}
                     /\ Cardinality(DOMAIN status.serversMap)
                            = Cardinality(ActiveIdentities(netId))
                     /\ \A identity \in ActiveIdentities(netId) :
                            status.serversMap[identity.sockaddr]
                                = mPrivateDnsTransports[netId][identity].state
             /\ mPrivateDnsModes' = mPrivateDnsModes
             /\ mPrivateDnsTransports' = mPrivateDnsTransports
             /\ mPrivateDnsLog' = mPrivateDnsLog
             /\ threads' = threads
             /\ last'.notes = <<>>
             /\ last'.events = <<>>]_vars

\* getStatus() on a network that tracks an inactive record and two active
\* ones in different states
C16_Witness ==
    /\ last.op = "getStatus"
    /\ Cardinality(Tracked(last.netId)) = 3
    /\ Cardinality(ActiveIdentities(last.netId)) = 2
    /\ Cardinality(DOMAIN last.status.serversMap) = 2
    /\ \E a, b \in DOMAIN last.status.serversMap :
           last.status.serversMap[a] # last.status.serversMap[b]

\* every registered listener, of either kind
AllListeners == Listeners \o UnsolListeners

\* the events among `events` sent to one listener for one server of one network
EventsTo(events, listener, netId, identity) ==
    {i \in 1..Len(events) : /\ events[i].listener = listener
                            /\ events[i].netId = netId
                            /\ events[i].ipAddress = ToIpString(identity.sockaddr)
                            /\ events[i].hostname = identity.provider}

\* the records whose state the step changed: <<netId, identity>>
StateChanged ==
    {x \in NetIds \X Identities :
        /\ x[1] \in DOMAIN mPrivateDnsTransports'
        /\ x[2] \in DOMAIN mPrivateDnsTransports'[x[1]]
        /\ mPrivateDnsTransports'[x[1]][x[2]].state
               # StateAtDecision(x[1], x[2])}

\* the installed observer, if any, was told the new state of the record
ObserverToldNewState(x) ==
    mObserver # NoObserver
        => \E i \in 1..Len(last'.notes) :
               last'.notes[i] = [observer |-> mObserver,
                                 ip |-> ToIpString(x[2].sockaddr),
                                 validation |-> mPrivateDnsTransports'[x[1]][x[2]].state,
                                 netId |-> x[1]]

\* C17: every update of a record's state, by set(), requestValidation() or a
\* report, notifies the installed observer, with the address, the new state
\* and the network, and every registered listener, with an event for that
\* network and server.
C17_EveryUpdateNotifiesAll ==
    [][\A x \in StateChanged :
          /\ ObserverToldNewState(x)
          /\ \A k \in 1..Len(AllListeners) :
                 EventsTo(last'.events, AllListeners[k], x[1], x[2]) # {}]_vars

\* C17 as amended: every update of a record's state notifies the installed
\* observer, if there is one, with the address, the new state and the network;
\* the listeners get an event, one each, only when the update is made by a
\* report; set() and requestValidation() send no event to any listener.
C17_UpdateNotifiesObserverReportNotifiesListeners ==
    [][\A x \in StateChanged :
          /\ ObserverToldNewState(x)
          /\ IF last'.op = "record"
             THEN \A k \in 1..Len(AllListeners) :
                      Cardinality(EventsTo(last'.events, AllListeners[k], x[1], x[2])) = 1
             ELSE last'.events = <<>>]_vars

\* requestValidation() has put a record in in_process with an observer
\* installed: the observer was told, no listener was
C17_Witness ==
    /\ last.op = "requestValidation"
    /\ last.ret = "OK"
    /\ mObserver # NoObserver
    /\ last.notes = ObserverTold(last.ss, "in_process", last.netId)
    /\ last.events = <<>>

\* every listener got exactly one event, with this success flag
OneEventEach(events, netId, server, success) ==
    /\ Len(events) = Len(AllListeners)
    /\ \A k \in 1..Len(AllListeners) :
           \E i \in 1..Len(events) :
               events[i] = [listener |-> AllListeners[k], netId |-> netId,
                            ipAddress |-> ToIpString(server.ss),
                            hostname |-> server.name, success |-> success]

\* C18: every report sends exactly one event to each listener, whether the
\* result is a success, a failure or stale and also when the network was
\* removed; the event says success exactly when the report sets the record to
\* success.
C18_EveryReportSendsOneEventEach ==
    last.op = "record"
        => OneEventEach(last.events, last.netId, last.thread.server,
                        ReportedSuccess(mPrivateDnsTransports, last.thread))

\* C18 as amended: a report for a network that has a tracker sends exactly
\* one event to each listener, whether the result is a success, a failure or
\* stale, and the event says success exactly when the report sets the record
\* to success; a report for a network without a tracker sends no event.
C18_ReportForTrackedNetworkSendsOneEventEach ==
    last.op = "record"
        => IF last.netId \in DOMAIN mPrivateDnsTransports
           THEN OneEventEach(last.events, last.netId, last.thread.server,
                             ReportedSuccess(mPrivateDnsTransports, last.thread))
           ELSE last.events = <<>>

\* validate() returned true for a server that a set() call had taken out of
\* the configuration: every listener got one event, saying failure
C18_Witness ==
    /\ last.op = "record"
    /\ last.success
    /\ last.thread.removed
    /\ last.netId \in DOMAIN mPrivateDnsTransports
    /\ Len(last.events) = Len(AllListeners)
    /\ \A i \in 1..Len(last.events) : ~last.events[i].success

\* `after` is `before` with entries appended at the end and, only as far as
\* the capacity requires it, entries removed from the front
AppendedWithin(before, after, capacity) ==
    /\ Len(after) <= capacity
    /\ \E kept \in 0..Len(after) :
           /\ kept <= Len(before)
           /\ SubSeq(after, 1, kept) = SubSeq(before, Len(before) - kept + 1, Len(before))
           /\ kept < Len(before) => Len(after) = capacity

\* C19: the log never holds more than its capacity; an entry appended to a
\* full log removes the oldest one, so the log holds the most recent entries
\* in the order they were appended (the newest being the state just stored);
\* clear() and set() remove no entry other than by such an append.
C19_LogKeepsMostRecent ==
    [][/\ AppendedWithin(mPrivateDnsLog, mPrivateDnsLog', LogCapacity)
       /\ last'.op = "clear" => mPrivateDnsLog' = mPrivateDnsLog
       /\ (last'.op = "set" /\ last'.spawned = <<>> /\ last'.notes = <<>>
              /\ StateChanged = {})
             => mPrivateDnsLog' = mPrivateDnsLog
       /\ (/\ last'.op = "record"
           /\ last'.netId \in DOMAIN mPrivateDnsTransports
           /\ ServerIdentity(last'.thread.server)
                  \in DOMAIN mPrivateDnsTransports[last'.netId])
             => LET identity == ServerIdentity(last'.thread.server)
                IN mPrivateDnsLog'[Len(mPrivateDnsLog')]
                       = RecordEntry(last'.netId, identity,
                                     mPrivateDnsTransports'[last'.netId][identity].state)
       /\ (last'.op = "requestValidation" /\ last'.ret = "OK")
             => mPrivateDnsLog'[Len(mPrivateDnsLog')]
                    = RecordEntry(last'.netId, RequestIdentity(last'), "in_process")]_vars

\* the log is full and its oldest entry has been dropped: it ends with the
\* success of a server and its in_process from requestValidation(), and the
\* in_process from the set() call that started the first validation is gone
C19_Witness ==
    /\ last.op = "requestValidation"
    /\ last.ret = "OK"
    /\ Len(mPrivateDnsLog) = LogCapacity
    /\ mPrivateDnsLog[Len(mPrivateDnsLog) - 1]
           = RecordEntry(last.netId, RequestIdentity(last), "success")
    /\ \A i \in 1..(Len(mPrivateDnsLog) - 1) : mPrivateDnsLog[i].state # "in_process"

\* C20: when a thread cannot be started in set() or requestValidation(), the
\* record it was to validate ends in state fail, not in_process.
C20_SpawnFailureLeavesFail ==
    [][(last'.op \in {"set", "requestValidation"} /\ last'.notStarted # NoThread)
       => mPrivateDnsTransports'[last'.netId][ServerIdentity(last'.notStarted.server)].state
              = "fail"]_vars

\* C21: no thread holds the lock while it is inside validate() or asleep
\* between two attempts: the holder, if any, is a thread inside
\* recordPrivateDnsValidation, and when every thread is validating or asleep
\* the lock is free, so that set(), getStatus(), clear(), requestValidation()
\* and the reports of other threads can take it.
C21_LockFreeWhileValidatingOrAsleep ==
    /\ \A t \in BagToSet(threads) :
           t.pc \in {"validate", "sleep"} => mPrivateDnsLock.holder # t
    /\ mPrivateDnsLock # Unlocked
         => /\ mPrivateDnsLock.holder \in BagToSet(threads)
            /\ mPrivateDnsLock.holder.pc = "record"
    /\ (\A t \in BagToSet(threads) : t.pc \in {"validate", "sleep"})
         => mPrivateDnsLock = Unlocked

\* getStatus() has run while one thread was inside validate() and another
\* asleep before its next attempt
C21_Witness ==
    /\ last.op = "getStatus"
    /\ mPrivateDnsLock = Unlocked
    /\ \E t \in BagToSet(threads) : t.pc = "validate"
    /\ \E t \in BagToSet(threads) : t.pc = "sleep"

\* the identities tracked for a network after the step
TrackedAfter(netId) ==
    IF netId \in DOMAIN mPrivateDnsTransports'
    THEN DOMAIN mPrivateDnsTransports'[netId] ELSE {}

\* C22: a record, once created in a network's tracker, stays in it through
\* every later set() call, whatever its arguments, and through every report;
\* only clear() removes it.
C22_OnlyClearRemovesRecords ==
    [][last'.op # "clear"
       => \A netId \in NetIds : Tracked(netId) \subseteq TrackedAfter(netId)]_vars

\* C22 as amended: a record stays in the tracker through every set() call
\* that names a server or a hostname, through every requestValidation() and
\* through every report; clear() and a set() call with no server and no
\* hostname remove every record of the network.
C22_OnlyClearAndEmptySetRemoveRecords ==
    [][\A netId \in NetIds :
          IF \/ last'.op = "clear" /\ last'.netId = netId
             \/ /\ last'.op = "set"
                /\ last'.netId = netId
                /\ last'.servers = <<>>
                /\ last'.name = ""
          THEN TrackedAfter(netId) = {}
          ELSE Tracked(netId) \subseteq TrackedAfter(netId)]_vars

\* a set() call with other servers and another hostname has left the record
\* of an earlier call in the tracker
C22_Witness ==
    /\ last.op = "set"
    /\ last.ret = "OK"
    /\ last.name # ""
    /\ last.servers # <<>>
    /\ \E identity \in Tracked(last.netId) :
           /\ identity \notin CallIdentities(last.servers, last.name)
           /\ identity.sockaddr # ParseServer(last.servers[1])

\* C23: when every validate() call returns and the backoff schedule is
\* finite, every thread ends; a thread ends exactly at a report that returns
\* DONT_REEVALUATE, or that returns NEEDS_REEVALUATION when the schedule has
\* no next interval, and no other step ends a thread.
C23_ThreadsEnd ==
    /\ [][IF last'.op = "record"
          THEN ThreadEnded <=> \/ last'.ret = "DONT_REEVALUATE"
                               \/ /\ last'.ret = "NEEDS_REEVALUATION"
                                  /\ last'.thread.timeouts >= MaxTimeouts
          ELSE BagCardinality(threads') >= BagCardinality(threads)]_vars
    /\ <>[](threads = EmptyBag)

\* a thread has ended at a report that asked for another attempt, with its
\* schedule used up
C23_Witness ==
    /\ last.op = "record"
    /\ last.ret = "NEEDS_REEVALUATION"
    /\ last.thread.timeouts = MaxTimeouts
    /\ threads = EmptyBag

\* C24: when set() or requestValidation() has started a thread, the record it
\* validates is in in_process: the transition and the start are made in one
\* critical section, so the operation ends, and the lock is released, with
\* the record in in_process, active and equal to what the thread captured,
\* and with the thread about to validate.
C24_StartedMeansInProcess ==
    \A i \in 1..Len(last.spawned) :
        LET t == last.spawned[i]
            identity == ServerIdentity(t.server)
        IN /\ last.op \in {"set", "requestValidation"}
           /\ mPrivateDnsLock = Unlocked
           /\ t.netId = last.netId
           /\ identity \in Tracked(t.netId)
           /\ mPrivateDnsTransports[t.netId][identity].state = "in_process"
           /\ mPrivateDnsTransports[t.netId][identity].active
           /\ Snapshot(mPrivateDnsTransports[t.netId][identity]) = t.server
           /\ t \in BagToSet(threads)

\* a set() call has started two threads, for a new server and for one
\* tracked since an earlier call with another mark
C24_Witness ==
    /\ last.op = "set"
    /\ Len(last.spawned) = 2
    /\ last.spawned[1].server.mark # last.spawned[2].server.mark
    /\ \A identity \in Tracked(last.netId) :
           mPrivateDnsTransports[last.netId][identity].state = "in_process"

\* C25: after a set() call that results in STRICT or OPPORTUNISTIC, a tracked
\* record of the network is active exactly when its identity is among those
\* built from the call's servers and hostname; requestValidation(),
\* getStatus(), setObserver() and the reports change no active flag.
C25_ActiveIffInLastSet ==
    [][/\ (/\ last'.op = "set"
           /\ last'.ret = "OK"
           /\ mPrivateDnsModes'[last'.netId] \in {"STRICT", "OPPORTUNISTIC"})
         => \A identity \in TrackedAfter(last'.netId) :
                mPrivateDnsTransports'[last'.netId][identity].active
                    <=> identity \in CallIdentities(last'.servers, last'.name)
       /\ last'.op \notin {"set", "clear"}
         => \A netId \in NetIds :
                /\ TrackedAfter(netId) = Tracked(netId)
                /\ \A identity \in Tracked(netId) :
                       mPrivateDnsTransports'[netId][identity].active
                           = mPrivateDnsTransports[netId][identity].active]_vars

\* a set() call has made inactive a server that is still under validation and
\* made another one active
C25_Witness ==
    /\ last.op = "set"
    /\ \E x, y \in Tracked(last.netId) :
           /\ ~mPrivateDnsTransports[last.netId][x].active
           /\ mPrivateDnsTransports[last.netId][x].state = "in_process"
           /\ Running(last.netId, x) = 1
           /\ x \notin CallIdentities(last.servers, last.name)
           /\ mPrivateDnsTransports[last.netId][y].active
           /\ y \in CallIdentities(last.servers, last.name)

\* C26: a set() call leaves the mark and the certificate of every record that
\* was already tracked as they are, also when it names the identity with
\* another mark or certificate, and gives a record it creates the mark and
\* certificate of the call; no other step changes them, and
\* requestValidation() succeeds only with the stored mark.
C26_MarkAndCertificateKept ==
    [][/\ \A netId \in NetIds :
              \A identity \in Tracked(netId) \cap TrackedAfter(netId) :
                  LET old == mPrivateDnsTransports[netId][identity]
                      new == mPrivateDnsTransports'[netId][identity]
                  IN /\ new.mark = old.mark
                     /\ new.certificate = old.certificate
       /\ last'.op = "set"
             => \A identity \in TrackedAfter(last'.netId) \ Tracked(last'.netId) :
                    LET new == mPrivateDnsTransports'[last'.netId][identity]
                    IN /\ new.mark = last'.mark
                       /\ new.certificate = last'.caCert
       /\ (last'.op = "requestValidation" /\ last'.ret = "OK")
             => last'.mark
                    = mPrivateDnsTransports[last'.netId][RequestIdentity(last')].mark]_vars

\* requestValidation() has succeeded with the mark of the set() call that
\* created the record, after a set() call that named the same identity with
\* another mark and certificate and created a second record with them
C26_Witness ==
    /\ last.op = "requestValidation"
    /\ last.ret = "OK"
    /\ mPrivateDnsTransports[last.netId][RequestIdentity(last)].mark = last.mark
    /\ \E other \in Tracked(last.netId) :
           /\ mPrivateDnsTransports[last.netId][other].mark # last.mark
           /\ mPrivateDnsTransports[last.netId][other].certificate
                  # mPrivateDnsTransports[last.netId][RequestIdentity(last)].certificate
           /\ mPrivateDnsTransports[last.netId][other].active

\* the servers, as captured, that the threads of a bag validate
ThreadServers(bag) == {<<t.netId, t.server>> : t \in BagToSet(bag)}

\* C27: every validate() call of a thread uses the mark the record had when
\* the thread was started: a thread is started with the stored mark and keeps
\* what it captured for all its attempts; requestValidation() with a mark
\* other than the stored one starts no thread.
C27_ValidationUsesStoredMark ==
    [][/\ \A i \in 1..Len(last'.spawned) :
              LET t == last'.spawned[i]
              IN /\ t \in BagToSet(threads')
                 /\ t.server.mark
                        = mPrivateDnsTransports'[t.netId][ServerIdentity(t.server)].mark
       /\ ThreadServers(threads')
              \subseteq ThreadServers(threads)
                            \cup {<<last'.spawned[i].netId, last'.spawned[i].server>> :
                                      i \in 1..Len(last'.spawned)}
       /\ (/\ last'.op = "requestValidation"
           /\ RequestIdentity(last') \in Tracked(last'.netId)
           /\ mPrivateDnsTransports[last'.netId][RequestIdentity(last')].mark
                  # last'.mark)
             => /\ threads' = threads
                /\ last'.spawned = <<>>
                /\ last'.ret \notin {"", "OK"}]_vars

\* a thread reports the result of a validate() call made with the mark of
\* the record it was started for, while the record now stored for its
\* identity has another mark
C27_Witness ==
    /\ last.op = "record"
    /\ ServerIdentity(last.thread.server) \in Tracked(last.netId)
    /\ mPrivateDnsTransports[last.netId][ServerIdentity(last.thread.server)].mark
           # last.thread.server.mark

\* where a thread is in its loop
Position(t) == [netId |-> t.netId, server |-> t.server,
                isRevalidation |-> t.isRevalidation, pc |-> t.pc, timeouts |-> t.timeouts]

PositionBag(bag) == BagOfAll(Position, bag)

RECURSIVE SpawnedPositions(_)
SpawnedPositions(spawned) ==
    IF spawned = <<>> THEN EmptyBag
    ELSE SetToBag({Position(Head(spawned))}) (+) SpawnedPositions(Tail(spawned))

\* C28: a thread starts in validate(); each validate() call is followed by
\* one report; after a report the thread either ends or, when the report
\* returned NEEDS_REEVALUATION and the schedule has a next interval, sleeps
\* once and then calls validate() again; so it calls validate() at most once
\* more than the schedule has intervals.
C28_ValidateReportSleep ==
    [][/\ \A i \in 1..Len(last'.spawned) :
              last'.spawned[i].pc = "validate" /\ last'.spawned[i].timeouts = 0
       /\ \A t \in BagToSet(threads') :
              /\ t.timeouts <= MaxTimeouts
              /\ t.pc \in {"validate", "sleep"}
              /\ t.pc = "sleep" => t.timeouts >= 1
       /\ LET t == last'.thread
              others == PositionBag(threads) (-) SetToBag({Position(t)})
          IN CASE last'.op = "record" ->
                    /\ t.pc = "validate"
                    /\ t \in BagToSet(threads)
                    /\ PositionBag(threads') =
                          IF last'.ret = "NEEDS_REEVALUATION" /\ t.timeouts < MaxTimeouts
                          THEN others (+) SetToBag({[Position(t) EXCEPT !.pc = "sleep",
                                                        !.timeouts = t.timeouts + 1]})
                          ELSE others
               [] last'.op = "wake" ->
                    /\ t.pc = "sleep"
                    /\ t \in BagToSet(threads)
                    /\ PositionBag(threads') =
                          others (+) SetToBag({[Position(t) EXCEPT !.pc = "validate"]})
               [] OTHER ->
                    PositionBag(threads') =
                       PositionBag(threads) (+) SpawnedPositions(last'.spawned)]_vars

\* a thread is in its last validate() call: the schedule has no interval left
C28_Witness ==
    /\ last.op = "wake"
    /\ last.thread.timeouts = MaxTimeouts
    /\ \E t \in BagToSet(threads) :
           /\ t.pc = "validate"
           /\ t.timeouts = MaxTimeouts
           /\ t.server = last.thread.server

\* the preconditions of requestValidation that fail for a request, one truth
\* value per precondition, in the order: network unknown, mode not
\* OPPORTUNISTIC, identity not tracked, record inactive, state not success,
\* mark mismatch
FailedPreconditions(netId, identity, mark) ==
    LET known == netId \in DOMAIN mPrivateDnsModes
        tracked == identity \in Tracked(netId)
    IN << ~known,
          known /\ mPrivateDnsModes[netId] # "OPPORTUNISTIC",
          ~tracked,
          tracked /\ ~mPrivateDnsTransports[netId][identity].active,
          tracked /\ mPrivateDnsTransports[netId][identity].state # "success",
          tracked /\ mPrivateDnsTransports[netId][identity].mark # mark >>

PreconditionErrors ==
    << "NetId not found in mPrivateDnsModes",
       "Private DNS setting is not opportunistic mode",
       "Server was removed",
       "Server is not active",
       "Server validation state mismatched",
       "Socket mark mismatched" >>

\* C30: the errors of the six precondition failures of requestValidation are
\* pairwise distinct, and a request for which one or more preconditions fail
\* returns the error of the first failing one in the order: network unknown,
\* mode not OPPORTUNISTIC, identity not tracked, record inactive, state not
\* success, mark mismatch; a request for which none fails returns no error.
C30_FirstFailingPrecondition ==
    [][last'.op = "requestValidation" =>
          LET failed == FailedPreconditions(last'.netId, RequestIdentity(last'), last'.mark)
              failing == {i \in 1..6 : failed[i]}
          IN /\ \A i, j \in 1..6 : i # j => PreconditionErrors[i] # PreconditionErrors[j]
             /\ failing = {} => last'.ret = "OK"
             /\ failing # {} =>
                   last'.ret = PreconditionErrors[CHOOSE i \in failing :
                                                    \A j \in failing : i <= j]]_vars

\* a request for an inactive record whose state is not success either
C30_Witness ==
    /\ last.op = "requestValidation"
    /\ last.ret = "Server is not active"
    /\ RequestIdentity(last) \in Tracked(last.netId)
    /\ mPrivateDnsTransports[last.netId][RequestIdentity(last)].state # "success"

\* the report of a thread finds a tracker and a mode entry for its network
ReportFindsNetwork ==
    /\ last'.op = "record"
    /\ last'.netId \in DOMAIN mPrivateDnsTransports
    /\ last'.netId \in DOMAIN mPrivateDnsModes

\* the step appends exactly one entry, for the network and the identity of
\* the reporting thread and the state the record has after the step (fail
\* when the tracker holds no such record)
AppendsOneEntry ==
    LET identity == ServerIdentity(last'.thread.server)
        state == IF identity \in TrackedAfter(last'.netId)
                 THEN mPrivateDnsTransports'[last'.netId][identity].state
                 ELSE "fail"
    IN mPrivateDnsLog' = Push(mPrivateDnsLog, RecordEntry(last'.netId, identity, state))

\* C29 as stated: every report that finds a tracker and a mode entry for the
\* network appends exactly one entry with the network, the identity of the
\* thread and the resulting state.
C29_EveryReportAppendsOneEntry ==
    [][ReportFindsNetwork => AppendsOneEntry]_vars

\* C29: a report that finds a tracker and a mode entry for the network
\* appends exactly one entry with the network, the identity of the thread
\* and the resulting state when the tracker holds a record of that identity,
\* and appends nothing when it holds none; in every step the log keeps its
\* entries in the order they were appended, the new ones at the end.
C29_ReportForTrackedIdentityAppendsOneEntry ==
    [][/\ ReportFindsNetwork =>
              IF ServerIdentity(last'.thread.server) \in Tracked(last'.netId)
              THEN AppendsOneEntry
              ELSE mPrivateDnsLog' = mPrivateDnsLog
       /\ AppendedWithin(mPrivateDnsLog, mPrivateDnsLog', LogCapacity)]_vars

\* a report has appended the state it stored behind an older entry
C29_Witness ==
    /\ last.op = "record"
    /\ ServerIdentity(last.thread.server) \in Tracked(last.netId)
    /\ Len(mPrivateDnsLog) >= 2
    /\ mPrivateDnsLog[Len(mPrivateDnsLog)] =
          RecordEntry(last.netId, ServerIdentity(last.thread.server),
                      mPrivateDnsTransports[last.netId][ServerIdentity(last.thread.server)].state)

----------------------------------------------------------------------------
(* Observers installed one after another: setObserver() with a second      *)
(* observer and with nullptr, between the calls that change states.        *)

ObserversInTurn == Observers \cup {"obs2"}

NextObservers ==
    \/ \E netId \in NetIds, c \in FairSetCalls : Set(netId, c[1], c[2], c[3], c[4])
    \/ \E netId \in NetIds, c \in RequestCalls :
           RequestValidation(netId, ParseServer(c[1]), c[2], c[3])
    \/ \E observer \in ObserversInTurn \cup {NoObserver} : SetObserver(observer)
    \/ \E t \in BagToSet(threads), success \in BOOLEAN : Record(t, success)
    \/ \E t \in BagToSet(threads) : Wake(t)

SpecObservers == Init /\ [][NextObservers]_vars

\* C31: setObserver(o) installs o in place of whatever was installed and
\* changes no mode, tracker, record, log entry or thread and notifies nobody;
\* every other step leaves the installed observer as it is, tells it every
\* state the step stores, and tells no other observer; with no observer
\* installed no notification is made.
C31_OnlyInstalledObserverTold ==
    [][/\ last'.op = "setObserver"
            => /\ mObserver' = last'.observer
               /\ UNCHANGED <<mPrivateDnsModes, mPrivateDnsTransports, mPrivateDnsLog,
                              threads>>
               /\ last'.notes = <<>>
               /\ last'.events = <<>>
       /\ last'.op # "setObserver"
            => /\ mObserver' = mObserver
               /\ \A i \in 1..Len(last'.notes) :
                      /\ last'.notes[i].observer = mObserver
                      /\ last'.notes[i].observer # NoObserver
               /\ \A x \in StateChanged : ObserverToldNewState(x)]_vars

\* the second observer was installed and is told of a state; the first one
\* is not
C31_Witness ==
    /\ mObserver = "obs2"
    /\ last.notes # <<>>
    /\ \A i \in 1..Len(last.notes) : last.notes[i].observer = "obs2"

----------------------------------------------------------------------------
(* Listener calls that fail.  onPrivateDnsValidationEvent returns a status  *)
(* that sendPrivateDnsValidationEvent does not look at.                     *)

ListenerFailures == SUBSET {AllListeners[k] : k \in 1..Len(AllListeners)} \ {{}}

\* a report during which the calls to the listeners in `failing` fail
RecordListenersFail(t, success, failing) ==
    /\ t \in BagToSet(threads)
    /\ t.pc = "validate"
    /\ LockGuard
    /\ LET m0 == [Mgr(mPrivateDnsTransports, mPrivateDnsLog) EXCEPT !.failing = failing]
           r == RecordPrivateDnsValidation(m0, mPrivateDnsModes, t.server, t.netId,
                                           success, t.isRevalidation)
       IN /\ mPrivateDnsTransports' = r.m.transports
          /\ mPrivateDnsLog' = r.m.log
          /\ threads' = (threads (-) SetToBag({t})) (+) AfterRecord(t, r.ret)
          /\ last' = Emitted([Last("record", t.netId) EXCEPT
                                  !.thread = t, !.success = success,
                                  !.failing = failing,
                                  !.ret = IF r.ret THEN "NEEDS_REEVALUATION"
                                          ELSE "DONT_REEVALUATE"], r.m)
    /\ UNCHANGED <<mPrivateDnsModes, mObserver, nOps>>

NextListenersFail ==
    \/ \E netId \in NetIds, c \in FairSetCalls : Set(netId, c[1], c[2], c[3], c[4])
    \/ \E netId \in NetIds : Clear(netId)
    \/ \E t \in BagToSet(threads), success \in BOOLEAN : Record(t, success)
    \/ \E t \in BagToSet(threads), success \in BOOLEAN, failing \in ListenerFailures :
           RecordListenersFail(t, success, failing)
    \/ \E t \in BagToSet(threads) : Wake(t)

SpecListenersFail == Init /\ [][NextListenersFail]_vars

\* C32: a report that finds a tracker calls every registered listener once,
\* in the order of registration, also the listeners after one whose call
\* failed; and it leaves the trackers, the log and its verdict as the same
\* report with no failing call leaves them.
C32_FailedDeliveryStopsNothing ==
    [][(last'.op = "record" /\ last'.netId \in DOMAIN mPrivateDnsTransports)
       => LET t == last'.thread
              r == RecordPrivateDnsValidation(Mgr(mPrivateDnsTransports, mPrivateDnsLog),
                                              mPrivateDnsModes, t.server, t.netId,
                                              last'.success, t.isRevalidation)
          IN /\ Len(last'.events) = Len(AllListeners)
             /\ \A k \in 1..Len(AllListeners) :
                    /\ last'.events[k].listener = AllListeners[k]
                    /\ last'.events[k] = [last'.events[1] EXCEPT !.listener = AllListeners[k]]
             /\ mPrivateDnsTransports' = r.m.transports
             /\ mPrivateDnsLog' = r.m.log
             /\ (last'.ret = "NEEDS_REEVALUATION") = r.ret
             /\ (ServerIdentity(t.server) \in Tracked(t.netId)
                   /\ ~IsStale(mPrivateDnsTransports[t.netId], t.server) /\ last'.success)
                 => mPrivateDnsTransports'[t.netId][ServerIdentity(t.server)].state
                        = "success"]_vars

\* the call to the first listener failed during a report of success: the
\* listeners after it got the event and the record is in state success
C32_Witness ==
    /\ last.op = "record"
    /\ AllListeners[1] \in last.failing
    /\ Len(last.events) = Len(AllListeners)
    /\ last.events[Len(AllListeners)].listener = AllListeners[Len(AllListeners)]
    /\ last.events[Len(AllListeners)].success
    /\ ServerIdentity(last.thread.server) \in Tracked(last.netId)
    /\ mPrivateDnsTransports[last.netId][ServerIdentity(last.thread.server)].state = "success"

\* the active records in state in_process that no thread is validating:
\* <<netId, identity>>
Unattended ==
    {x \in NetIds \X Identities :
        /\ x[2] \in Tracked(x[1])
        /\ mPrivateDnsTransports[x[1]][x[2]].active
        /\ mPrivateDnsTransports[x[1]][x[2]].state = "in_process"
        /\ Running(x[1], x[2]) = 0}

\* C33: every active record in state in_process has a thread that has not
\* ended for its network and identity, in validate() or asleep.
C33_InProcessHasThread == Unattended = {}

\* the records that are active and in state success: <<netId, identity>>
ActiveSuccess ==
    {x \in NetIds \X Identities :
        /\ x[2] \in Tracked(x[1])
        /\ mPrivateDnsTransports[x[1]][x[2]].active
        /\ mPrivateDnsTransports[x[1]][x[2]].state = "success"}

\* C34: a record that is active and in state success stays so in every step
\* except a requestValidation() for it (to in_process), a set() call that
\* makes it inactive (to success_but_expired), and a clear() or a set() call
\* resulting in OFF that erases its tracker; in particular in every report.
C34_SuccessLeftOnlyByCalls ==
    [][\A x \in ActiveSuccess :
          \/ /\ x[2] \in TrackedAfter(x[1])
             /\ mPrivateDnsTransports'[x[1]][x[2]] = mPrivateDnsTransports[x[1]][x[2]]
          \/ /\ last'.op = "requestValidation"
             /\ last'.ret = "OK"
             /\ x = <<last'.netId, RequestIdentity(last')>>
             /\ mPrivateDnsTransports'[x[1]][x[2]].state = "in_process"
          \/ /\ last'.op = "set"
             /\ x[1] = last'.netId
             /\ x[2] \in TrackedAfter(x[1])
             /\ ~mPrivateDnsTransports'[x[1]][x[2]].active
             /\ mPrivateDnsTransports'[x[1]][x[2]].state = "success_but_expired"
          \/ /\ last'.op = "set"
             /\ x[1] = last'.netId
             /\ mPrivateDnsModes'[x[1]] = "OFF"
             /\ x[1] \notin DOMAIN mPrivateDnsTransports'
          \/ /\ last'.op = "clear"
             /\ x[1] = last'.netId
             /\ x[1] \notin DOMAIN mPrivateDnsTransports']_vars

\* C35: a network has a tracker exactly when it has a mode entry that is
\* STRICT or OPPORTUNISTIC; so no report finds a tracker without a mode entry
\* or with mode OFF, and requestValidation() never returns that an
\* OPPORTUNISTIC network has no tracker.
C35_TrackerIffModeOn ==
    /\ \A netId \in NetIds :
           netId \in DOMAIN mPrivateDnsTransports
               <=> /\ netId \in DOMAIN mPrivateDnsModes
                   /\ mPrivateDnsModes[netId] \in {"STRICT", "OPPORTUNISTIC"}
    /\ DOMAIN mPrivateDnsTransports \subseteq NetIds
    /\ DOMAIN mPrivateDnsModes \subseteq NetIds
    /\ last.ret # "NetId not found in mPrivateDnsTransports"

\* a thread reports after set() turned its network OFF: there is a mode
\* entry, OFF, and no tracker
C35_Witness ==
    /\ last.op = "record"
    /\ last.netId \in DOMAIN mPrivateDnsModes
    /\ mPrivateDnsModes[last.netId] = "OFF"
    /\ last.netId \notin DOMAIN mPrivateDnsTransports

\* the active records of a network
ActiveRecords(netId) ==
    {mPrivateDnsTransports[netId][identity] :
        identity \in {i \in Tracked(netId) : mPrivateDnsTransports[netId][i].active}}

\* C36: the active records of a network all carry one hostname, which is
\* non-empty exactly when the network's mode is STRICT; a network in mode
\* OPPORTUNISTIC has an active record; and no two active records of a
\* network have the same address.
C36_ActiveRecordsOfOneConfiguration ==
    \A netId \in NetIds :
        /\ \A x, y \in ActiveRecords(netId) :
               /\ x.name = y.name
               /\ x.ss = y.ss => x = y
        /\ \A x \in ActiveRecords(netId) :
               x.name # "" <=> mPrivateDnsModes[netId] = "STRICT"
        /\ (netId \in DOMAIN mPrivateDnsModes /\ mPrivateDnsModes[netId] = "OPPORTUNISTIC")
              => ActiveRecords(netId) # {}

\* a network in mode STRICT that tracks the same address with and without
\* the hostname: only the record with the hostname is active
C36_Witness ==
    \E netId \in NetIds :
        /\ netId \in DOMAIN mPrivateDnsModes
        /\ mPrivateDnsModes[netId] = "STRICT"
        /\ ActiveRecords(netId) # {}
        /\ \E i, j \in Tracked(netId) :
               /\ i # j
               /\ i.sockaddr = j.sockaddr
               /\ mPrivateDnsTransports[netId][i].active
               /\ ~mPrivateDnsTransports[netId][j].active

\* C37: between operations no tracked record is in state unknown_server and
\* no active record is in state success_but_expired, and the states
\* getStatus() reports are in_process, success and fail only.
C37_NoUnknownNoActiveExpired ==
    /\ \A netId \in NetIds : \A identity \in Tracked(netId) :
           LET server == mPrivateDnsTransports[netId][identity]
           IN /\ server.state # "unknown_server"
              /\ server.active => server.state # "success_but_expired"
    /\ last.op = "getStatus"
          => \A ss \in DOMAIN last.status.serversMap :
                 last.status.serversMap[ss] \in {"in_process", "success", "fail"}

\* getStatus() of a network that tracks an expired record, which is inactive
\* and not reported, beside an active one, which is
C37_Witness ==
    /\ last.op = "getStatus"
    /\ DOMAIN last.status.serversMap # {}
    /\ \E identity \in Tracked(last.netId) :
           /\ ~mPrivateDnsTransports[last.netId][identity].active
           /\ mPrivateDnsTransports[last.netId][identity].state = "success_but_expired"
           /\ identity.sockaddr \notin DOMAIN last.status.serversMap

----------------------------------------------------------------------------
(* Two networks configured side by side, with the same server.             *)

TwoNetIds == NetIds \cup {2}

\* set() calls for one unnamed server and for none
TwoNetSetCalls == {c \in SetCalls : c[1] = 16 /\ c[3] = "" /\ c[2] \in {<<"9.9.9.9">>, <<>>}}

TwoNetRequestCalls == {c \in RequestCalls : c[3] = 16}

NextTwoNetworks ==
    \/ \E netId \in TwoNetIds, c \in TwoNetSetCalls : Set(netId, c[1], c[2], c[3], c[4])
    \/ \E netId \in TwoNetIds : Clear(netId)
    \/ \E netId \in TwoNetIds, c \in TwoNetRequestCalls :
           RequestValidation(netId, ParseServer(c[1]), c[2], c[3])
    \/ \E t \in BagToSet(threads), success \in BOOLEAN : Record(t, success)
    \/ \E t \in BagToSet(threads) : Wake(t)

SpecTwoNetworks == Init /\ [][NextTwoNetworks]_vars

\* the threads of one network
ThreadsOf(bag, netId) == {t \in BagToSet(bag) : t.netId = netId}

\* C38: set(), clear() and requestValidation() on one network, and a report
\* of a thread started for it, change for no other network the mode entry,
\* the tracker with the active flag and state of every record, or what
\* getStatus() returns, and start no thread for another network and end
\* none.
C38_OtherNetworksUntouched ==
    [][last'.op \in {"set", "clear", "requestValidation", "record", "wake"}
       => /\ last'.netId \in TwoNetIds
          /\ \A i \in 1..Len(last'.spawned) : last'.spawned[i].netId = last'.netId
          /\ \A netId \in TwoNetIds \ {last'.netId} :
                 /\ netId \in DOMAIN mPrivateDnsModes' <=> netId \in DOMAIN mPrivateDnsModes
                 /\ netId \in DOMAIN mPrivateDnsModes
                       => mPrivateDnsModes'[netId] = mPrivateDnsModes[netId]
                 /\ netId \in DOMAIN mPrivateDnsTransports'
                       <=> netId \in DOMAIN mPrivateDnsTransports
                 /\ netId \in DOMAIN mPrivateDnsTransports
                       => mPrivateDnsTransports'[netId] = mPrivateDnsTransports[netId]
                 /\ GetStatus(mPrivateDnsModes', mPrivateDnsTransports', netId)
                       = GetStatus(mPrivateDnsModes, mPrivateDnsTransports, netId)
                 /\ ThreadsOf(threads', netId) = ThreadsOf(threads, netId)
                 /\ \A t \in ThreadsOf(threads, netId) : threads'[t] = threads[t]]_vars

\* a report for one network stored a state for a server that another
\* network tracks too, where the record is in another state
C38_Witness ==
    /\ last.op = "record"
    /\ \E netId \in TwoNetIds \ {last.netId} :
           LET identity == ServerIdentity(last.thread.server)
           IN /\ identity \in Tracked(last.netId)
              /\ identity \in Tracked(netId)
              /\ mPrivateDnsTransports[last.netId][identity].state = "success"
              /\ mPrivateDnsTransports[netId][identity].state = "in_process"

\* the records the step has put in state success: <<netId, identity>>
BecameSuccess ==
    {x \in NetIds \X Identities :
        /\ x[2] \in TrackedAfter(x[1])
        /\ mPrivateDnsTransports'[x[1]][x[2]].state = "success"
        /\ x \notin {y \in NetIds \X Identities :
                         /\ y[2] \in Tracked(y[1])
                         /\ mPrivateDnsTransports[y[1]][y[2]].state = "success"}}

\* C39: a record is put in state success only by a report of a thread whose
\* validate() returned true, for the record of the thread's identity, that
\* record being active and equal to what the thread captured in address,
\* hostname, certificate and mark; set(), requestValidation(), clear() and
\* setObserver() put no record in state success.
C39_SuccessOnlyByValidReport ==
    [][\A x \in BecameSuccess :
          /\ last'.op = "record"
          /\ last'.success
          /\ x = <<last'.thread.netId, ServerIdentity(last'.thread.server)>>
          /\ x[2] \in Tracked(x[1])
          /\ LET stored == mPrivateDnsTransports[x[1]][x[2]]
                 server == last'.thread.server
             IN /\ stored.active
                /\ stored.ss = server.ss
                /\ stored.name = server.name
                /\ stored.certificate = server.certificate
                /\ stored.mark = server.mark]_vars

\* the thread of a revalidation reported true and its record, which
\* requestValidation() had put in in_process, is in state success again
C39_Witness ==
    /\ last.op = "record"
    /\ last.success
    /\ last.thread.isRevalidation
    /\ ReportedSuccess(mPrivateDnsTransports, last.thread)
    /\ mPrivateDnsTransports[last.netId][ServerIdentity(last.thread.server)].active

====
